---- MODULE Spec2Model ----
(***************************************************************************)
(* Vaulty: the storage-and-cryptography core (src/storage.rs,              *)
(* src/crypto.rs, src/models.rs) and the unlock / save / lockout           *)
(* controller of src/app.rs, as a state machine over the files of the      *)
(* vault directory, the two keyring entries and up to two processes.       *)
(*                                                                         *)
(* Cryptography is symbolic: a key is a record naming what it was made     *)
(* from, a ciphertext names the key, nonce and plaintext it was sealed     *)
(* with, and opening succeeds only with that key and that nonce.           *)
(***************************************************************************)
EXTENDS Integers, Sequences, FiniteSets, TLC

\* ---------------------------------------------------------------- bounds
\* width of the revision counter in the model (u64 in the program)
RevBits == 2
\* number of values the random source hands out before the model stops saving
MaxRng == 9
\* the clock stops advancing here
MaxTime == 180
\* entries a vault holds at most in the model
MaxEntries == 2
\* symlinks followed on the way to one path
MaxHops == 2
\* pieces in which the bytes of one write reach the temporary file
MaxLen == 2

\* ------------------------------------------------------ program constants
MAX_ATTEMPTS == 3
LOCK_SECONDS == 120
VAULT_FORMAT_VERSION == 2
U64_MAX == 2^RevBits - 1

Procs == {1, 2}
Passphrases == {"Str0ng!Pass", "0ther!Pass"}

\* ------------------------------------------------------- Option / Result
None == [none |-> TRUE]
Some(x) == [some |-> x]
IsSome(o) == "some" \in DOMAIN o

Ok(v) == [ok |-> v]
Err(e) == [err |-> e]
IsOk(r) == "ok" \in DOMAIN r

ErrDecrypt == "Decryption failed. Wrong password?"
ErrVersion == "Unsupported vault format version"
ErrJson == "json"
ErrBase64 == "base64"
ErrKeyLen == "Invalid wrapped key length in vault"
ErrKdf == "Invalid Argon2 params"
ErrRollback == "Vault rollback detected"
ErrMismatch == "Password mismatch"
ErrBadHash == "Bad stored hash"
ErrKeyring == "Keyring read error"
ErrNotFound == "Vault file not found"

\* ------------------------------------------------------------- base64
B64Encode(x) == [b64 |-> x]
B64Decode(s) == IF "b64" \in DOMAIN s THEN Ok(s.b64) ELSE Err(ErrBase64)

\* ------------------------------------------------------------- crypto.rs
KdfDefault == [m_cost |-> 19 * 1024, t_cost |-> 2, p_cost |-> 1]

\* Argon2id: fails on parameters the library rejects, else a key that is a
\* function of exactly (passphrase, salt, parameters).
derive_key_with_params(master_password, salt, params) ==
  IF params.m_cost < 8 * params.p_cost \/ params.t_cost < 1 \/ params.p_cost < 1
  THEN Err(ErrKdf)
  ELSE Ok([pw |-> master_password, salt |-> salt, m |-> params.m_cost,
           t |-> params.t_cost, p |-> params.p_cost])

derive_key(master_password, salt) ==
  derive_key_with_params(master_password, salt, KdfDefault)

\* a raw 32-byte key made of the random bytes n
RawKey(n) == [raw |-> n]

\* ChaCha20-Poly1305 seal / open
Seal(key, nonce, plaintext) == [k |-> key, n |-> nonce, pt |-> plaintext]
\* Open that takes the nonce from the ciphertext
Open_any_nonce(key, nonce, ct) ==
  IF "k" \in DOMAIN ct /\ ct.k = key THEN Ok(ct.pt) ELSE Err(ErrDecrypt)

\* Open without authentication of the key
Open_any_key(key, nonce, ct) ==
  IF "k" \in DOMAIN ct /\ ct.n = nonce THEN Ok(ct.pt) ELSE Err(ErrDecrypt)

Open(key, nonce, ct) ==
  IF "k" \in DOMAIN ct /\ ct.k = key /\ ct.n = nonce
  THEN Ok(ct.pt) ELSE Err(ErrDecrypt)

\* nonce_bytes is the value OsRng.fill_bytes produced for this call
encrypt_with_key(key, plaintext, nonce_bytes) ==
  [salt |-> B64Encode(0),
   nonce |-> B64Encode(nonce_bytes),
   data |-> B64Encode(Seal(key, nonce_bytes, plaintext))]

decrypt_with_key(key, enc) ==
  LET nonce_bytes == B64Decode(enc.nonce)
      ciphertext == B64Decode(enc.data)
  IN IF ~IsOk(nonce_bytes) THEN nonce_bytes
     ELSE IF ~IsOk(ciphertext) THEN ciphertext
     ELSE Open(key, nonce_bytes.ok, ciphertext.ok)

encrypt_with_password(master_password, plaintext, salt, nonce_bytes) ==
  [salt |-> B64Encode(salt),
   nonce |-> B64Encode(nonce_bytes),
   data |-> B64Encode(Seal(derive_key(master_password, salt).ok, nonce_bytes, plaintext))]

decrypt_with_password(master_password, enc) ==
  LET salt == B64Decode(enc.salt)
      nonce_bytes == B64Decode(enc.nonce)
      ciphertext == B64Decode(enc.data)
  IN IF ~IsOk(salt) THEN salt
     ELSE IF ~IsOk(nonce_bytes) THEN nonce_bytes
     ELSE IF ~IsOk(ciphertext) THEN ciphertext
     ELSE LET key == derive_key(master_password, salt.ok)
          IN IF ~IsOk(key) THEN key
             ELSE Open(key.ok, nonce_bytes.ok, ciphertext.ok)

\* ------------------------------------------------------------- models.rs
\* in memory: Entry [id, name, email, password, username, notes],
\* Note [id, title, content], Vault [revision, entries, notes];
\* username and notes of an entry are Option<String>.
VaultDefault == [revision |-> 0, entries |-> <<>>, notes |-> <<>>]

\* serde: Serialize writes every field, None as null
OptToJson(o) == IF IsSome(o) THEN [str |-> o.some] ELSE [null |-> TRUE]
JsonToOpt(j) == IF "str" \in DOMAIN j THEN Some(j.str) ELSE None

\* EntryToJson that skips the username field
EntryToJson_skip_username(e) ==
  [id |-> e.id, name |-> e.name, email |-> e.email, password |-> e.password,
   notes |-> OptToJson(e.notes)]

EntryToJson(e) ==
  [id |-> e.id, name |-> e.name, email |-> e.email, password |-> e.password,
   username |-> OptToJson(e.username), notes |-> OptToJson(e.notes)]

NoteToJson(n) == [id |-> n.id, title |-> n.title, content |-> n.content]

VaultToJson(v) ==
  [revision |-> v.revision,
   entries |-> [i \in 1..Len(v.entries) |-> EntryToJson(v.entries[i])],
   notes |-> [i \in 1..Len(v.notes) |-> NoteToJson(v.notes[i])]]

\* serde_json::to_vec(vault)
to_vec(v) == [json |-> VaultToJson(v)]

\* serde: Deserialize; id defaults to new_uuid(), username/notes to None,
\* name, email, password (title, content) are required.
EntryJsonOk(j) == {"name", "email", "password"} \subseteq DOMAIN j
NoteJsonOk(j) == {"title", "content"} \subseteq DOMAIN j

\* uuid is the value new_uuid() draws for a record without an id
EntryFromJson(j, uuid) ==
  [id |-> IF "id" \in DOMAIN j THEN j.id ELSE uuid,
   name |-> j.name, email |-> j.email, password |-> j.password,
   username |-> IF "username" \in DOMAIN j THEN JsonToOpt(j.username) ELSE None,
   notes |-> IF "notes" \in DOMAIN j THEN JsonToOpt(j.notes) ELSE None]

NoteFromJson(j, uuid) ==
  [id |-> IF "id" \in DOMAIN j THEN j.id ELSE uuid,
   title |-> j.title, content |-> j.content]

\* how many of the first i records of seq carry no id
MissingIds(seq, i) == Cardinality({k \in 1..i : "id" \notin DOMAIN seq[k]})

\* serde_json::from_slice::<Vault>(bytes); rngc is the position of the
\* random source, which the id default (new_uuid) draws from; the result
\* carries the number of values drawn
from_slice(bytes, rngc) ==
  IF "json" \notin DOMAIN bytes THEN Err(ErrJson)
  ELSE LET j == bytes.json
           es == IF "entries" \in DOMAIN j THEN j.entries ELSE <<>>
           ns == IF "notes" \in DOMAIN j THEN j.notes ELSE <<>>
           de == MissingIds(es, Len(es))
       IN IF (\E i \in 1..Len(es) : ~EntryJsonOk(es[i]))
             \/ (\E i \in 1..Len(ns) : ~NoteJsonOk(ns[i]))
          THEN Err(ErrJson)
          ELSE [ok |-> [revision |-> IF "revision" \in DOMAIN j THEN j.revision ELSE 0,
                        entries |-> [i \in 1..Len(es) |->
                                       EntryFromJson(es[i], rngc + MissingIds(es, i))],
                        notes |-> [i \in 1..Len(ns) |->
                                     NoteFromJson(ns[i], rngc + de + MissingIds(ns, i))]],
                drew |-> de + MissingIds(ns, Len(ns))]

\* ------------------------------------------------------------ storage.rs
\* A file is the JSON object it holds, or NoFile.
NoFile == [absent |-> TRUE]
Exists(f) == "absent" \notin DOMAIN f

WrappedKeys == {"version", "kdf", "kdf_salt", "wrapped_key", "vault"}
EncKeys == {"salt", "nonce", "data"}

\* is_wrapped_vault_file that also asks for the supported version
is_wrapped_vault_file_by_version(f) ==
  IF ~Exists(f) THEN Ok(FALSE)
  ELSE IF "garbage" \in DOMAIN f THEN Err(ErrJson)
  ELSE Ok(WrappedKeys \subseteq DOMAIN f /\ f.version = VAULT_FORMAT_VERSION)

is_wrapped_vault_file(f) ==
  IF ~Exists(f) THEN Ok(FALSE)
  ELSE IF "garbage" \in DOMAIN f THEN Err(ErrJson)
  ELSE Ok(WrappedKeys \subseteq DOMAIN f)

\* serde_json::from_str::<WrappedVaultFile>
ParseWrapped(f) ==
  IF WrappedKeys \subseteq DOMAIN f
     /\ f.version \in 0..255
     /\ {"m_cost", "t_cost", "p_cost"} \subseteq DOMAIN f.kdf
     /\ EncKeys \subseteq DOMAIN f.wrapped_key
     /\ EncKeys \subseteq DOMAIN f.vault
  THEN Ok(f) ELSE Err(ErrJson)

\* serde_json::from_str::<EncryptedVault>
ParseEncrypted(f) ==
  IF EncKeys \subseteq DOMAIN f THEN Ok(f) ELSE Err(ErrJson)

load_vault(f, master_password, rngc) ==
  LET wrapped == ParseWrapped(f)
  IN IF ~IsOk(wrapped) THEN wrapped
     ELSE IF f.version # VAULT_FORMAT_VERSION THEN Err(ErrVersion)
     ELSE LET salt == B64Decode(f.kdf_salt)
          IN IF ~IsOk(salt) THEN salt
             ELSE LET kek == derive_key_with_params(master_password, salt.ok, f.kdf)
                  IN IF ~IsOk(kek) THEN kek
                     ELSE LET dek == decrypt_with_key(kek.ok, f.wrapped_key)
                          IN IF ~IsOk(dek) THEN dek
                             ELSE IF ~("bytes" \in DOMAIN dek.ok /\ dek.ok.len = 32)
                                  THEN Err(ErrKeyLen)
                             ELSE LET decrypted == decrypt_with_key(RawKey(dek.ok.bytes), f.vault)
                                  IN IF ~IsOk(decrypted) THEN decrypted
                                     ELSE from_slice(decrypted.ok, rngc)

load_vault_with_key(f, key, rngc) ==
  LET enc == ParseEncrypted(f)
  IN IF ~IsOk(enc) THEN enc
     ELSE LET decrypted == decrypt_with_key(key, f)
          IN IF ~IsOk(decrypted) THEN decrypted
             ELSE from_slice(decrypted.ok, rngc)

load_vault_legacy(f, master_password, rngc) ==
  LET enc == ParseEncrypted(f)
  IN IF ~IsOk(enc) THEN enc
     ELSE LET decrypted == decrypt_with_password(master_password, f)
          IN IF ~IsOk(decrypted) THEN decrypted
             ELSE from_slice(decrypted.ok, rngc)

\* The four values OsRng hands out during one save, in the order drawn:
\* salt, dek, nonce of wrapped_key, nonce of vault.
SaveDraws == 4

\* save_vault that draws nothing: one salt, one key and one nonce for every save
save_vault_no_draws(vault, master_password, rngc) ==
  LET kek == derive_key_with_params(master_password, 0, KdfDefault)
  IN IF ~IsOk(kek) THEN kek
     ELSE Ok([version |-> VAULT_FORMAT_VERSION,
              kdf |-> KdfDefault,
              kdf_salt |-> B64Encode(0),
              wrapped_key |-> encrypt_with_key(kek.ok, [bytes |-> 0, len |-> 32], 0),
              vault |-> encrypt_with_key(RawKey(0), to_vec(vault), 0)])

\* save_vault by the password-keyed legacy encryption
save_vault_legacy(vault, master_password, rngc) ==
  Ok(encrypt_with_password(master_password, to_vec(vault), rngc + 1, rngc + 2))

\* save_vault with one salt for every save
save_vault_static_salt(vault, master_password, rngc) ==
  LET salt == 0
      params == KdfDefault
      kek == derive_key_with_params(master_password, salt, params)
      dek == rngc + 2
      wrapped_key == encrypt_with_key(kek.ok, [bytes |-> dek, len |-> 32], rngc + 3)
      plaintext == to_vec(vault)
      enc_vault == encrypt_with_key(RawKey(dek), plaintext, rngc + 4)
  IN IF ~IsOk(kek) THEN kek
     ELSE Ok([version |-> VAULT_FORMAT_VERSION,
              kdf |-> [m_cost |-> params.m_cost, t_cost |-> params.t_cost,
                       p_cost |-> params.p_cost],
              kdf_salt |-> B64Encode(salt),
              wrapped_key |-> wrapped_key,
              vault |-> enc_vault])

save_vault(vault, master_password, rngc) ==
  LET salt == rngc + 1
      params == KdfDefault
      kek == derive_key_with_params(master_password, salt, params)
      dek == rngc + 2
      wrapped_key == encrypt_with_key(kek.ok, [bytes |-> dek, len |-> 32], rngc + 3)
      plaintext == to_vec(vault)
      enc_vault == encrypt_with_key(RawKey(dek), plaintext, rngc + 4)
  IN IF ~IsOk(kek) THEN kek
     ELSE Ok([version |-> VAULT_FORMAT_VERSION,
              kdf |-> [m_cost |-> params.m_cost, t_cost |-> params.t_cost,
                       p_cost |-> params.p_cost],
              kdf_salt |-> B64Encode(salt),
              wrapped_key |-> wrapped_key,
              vault |-> enc_vault])

save_lock(unlock_at) == [unlock_at |-> unlock_at]

load_lock(f) == IF ~Exists(f) THEN None ELSE Some(f.unlock_at)

\* ensure_lock_not_active that never refuses: a lock on disk is cleared
ensure_lock_not_active_never(lock, t) ==
  LET until == load_lock(lock)
  IN IF IsSome(until)
     THEN [exit |-> FALSE, lock |-> NoFile, log |-> <<"read lock.json", "clear_lock">>]
     ELSE [exit |-> FALSE, lock |-> lock, log |-> <<>>]

\* ensure_lock_not_active that still refuses at the instant unlock_at
ensure_lock_not_active_le(lock, t) ==
  LET until == load_lock(lock)
  IN IF IsSome(until) /\ t <= until.some
     THEN [exit |-> TRUE, lock |-> lock, log |-> <<"read lock.json">>]
     ELSE IF IsSome(until)
     THEN [exit |-> FALSE, lock |-> NoFile, log |-> <<"read lock.json", "clear_lock">>]
     ELSE [exit |-> FALSE, lock |-> lock, log |-> <<>>]

\* exit when the lock is still active; else the lock file is cleared
ensure_lock_not_active(lock, t) ==
  LET until == load_lock(lock)
  IN IF IsSome(until) /\ t < until.some
     THEN [exit |-> TRUE, lock |-> lock, log |-> <<"read lock.json">>]
     ELSE IF IsSome(until)
     THEN [exit |-> FALSE, lock |-> NoFile, log |-> <<"read lock.json", "clear_lock">>]
     ELSE [exit |-> FALSE, lock |-> lock, log |-> <<>>]

\* set_lock that counts the duration from the epoch instead of from now
set_lock_epoch(t, duration_secs) == save_lock(duration_secs)

set_lock(t, duration_secs) == save_lock(t + duration_secs)

\* meta.json: Ok(None) when absent, the Meta when it parses
load_meta(f) ==
  IF ~Exists(f) THEN Ok(None)
  ELSE IF "master_hash" \in DOMAIN f THEN Ok(Some(f)) ELSE Err(ErrJson)

\* load_wrapped_key that reports every failure of the store as an absent entry
load_wrapped_key_soft(entry, up) == IF up THEN Ok(entry) ELSE Ok(None)

\* keyring entry "vault-key"; up is whether the store answers this call
load_wrapped_key(entry, up) == IF up THEN Ok(entry) ELSE Err(ErrKeyring)

\* keyring entry "vault-revision"
load_trusted_revision(entry, up) == IF up THEN Ok(entry) ELSE Err(ErrKeyring)

\* the entry after the call; the callers drop the call's result
store_trusted_revision(entry, revision, up) == IF up THEN Some(revision) ELSE entry

\* ---------------------------------------------------------------- app.rs
\* the PHC string Argon2 makes of a passphrase
PasswordHash(pw) == [phc |-> pw]

\* verify_master that accepts every passphrase
verify_master_any(master, stored) ==
  IF "phc" \notin DOMAIN stored THEN Err(ErrBadHash) ELSE Ok(TRUE)

verify_master(master, stored) ==
  IF "phc" \notin DOMAIN stored THEN Err(ErrBadHash)
  ELSE IF stored.phc = master THEN Ok(TRUE) ELSE Err(ErrMismatch)

\* a String after zeroize(): its bytes overwritten with zeros, its length 0
Zeroized == ""

\* zeroize_sensitive: what the memory of the vault and of the passphrase
\* holds once the function has run. A field it calls zeroize() on is
\* Zeroized; a field it only drops (entries.clear(), notes.clear()) keeps
\* its bytes in the freed memory.
zeroize_sensitive(v, master_password) ==
  [vault |-> [revision |-> v.revision,
              entries |-> [i \in 1..Len(v.entries) |->
                             [v.entries[i] EXCEPT !.name = Zeroized, !.email = Zeroized,
                                                  !.password = Zeroized]],
              notes |-> [i \in 1..Len(v.notes) |->
                           [v.notes[i] EXCEPT !.title = Zeroized, !.content = Zeroized]]],
   master |-> Zeroized]

\* an increment that wraps around at the top of the range
wrapping_add(r) == (r + 1) % (U64_MAX + 1)

\* an increment by two
saturating_add_two(r) == IF r + 2 >= U64_MAX THEN U64_MAX ELSE r + 2

saturating_add(r) == IF r >= U64_MAX THEN U64_MAX ELSE r + 1

StoreEvent(up) ==
  IF up THEN "store_trusted_revision" ELSE "store_trusted_revision failed"

\* persist_vault_with_revision that records the revision the vault had
\* before the save raised it
persist_vault_with_revision_stale(file, vault, master_password, trusted, rngc, wr) ==
  LET v == [vault EXCEPT !.revision = saturating_add(@)]
      saved == save_vault(v, master_password, rngc)
  IN IF ~IsOk(saved)
     THEN [res |-> saved, vault |-> v, file |-> file, trusted |-> trusted,
           rng |-> rngc, log |-> <<>>]
     ELSE [res |-> Ok(TRUE), vault |-> v, file |-> saved.ok,
           trusted |-> store_trusted_revision(trusted, vault.revision, wr),
           rng |-> rngc + SaveDraws,
           log |-> <<"write vault.json", StoreEvent(wr)>>]

\* persist_vault_with_revision that returns the store's error to its caller
persist_vault_with_revision_strict(file, vault, master_password, trusted, rngc, wr) ==
  LET v == [vault EXCEPT !.revision = saturating_add(@)]
      saved == save_vault(v, master_password, rngc)
  IN IF ~IsOk(saved)
     THEN [res |-> saved, vault |-> v, file |-> file, trusted |-> trusted,
           rng |-> rngc, log |-> <<>>]
     ELSE [res |-> IF wr THEN Ok(TRUE) ELSE Err(ErrKeyring), vault |-> v,
           file |-> saved.ok,
           trusted |-> store_trusted_revision(trusted, v.revision, wr),
           rng |-> rngc + SaveDraws,
           log |-> <<"write vault.json", StoreEvent(wr)>>]

\* wr: whether the store accepts the write of this save
persist_vault_with_revision(file, vault, master_password, trusted, rngc, wr) ==
  LET v == [vault EXCEPT !.revision = saturating_add(@)]
      saved == save_vault(v, master_password, rngc)
  IN IF ~IsOk(saved)
     THEN [res |-> saved, vault |-> v, file |-> file, trusted |-> trusted,
           rng |-> rngc, log |-> <<>>]
     ELSE [res |-> Ok(TRUE), vault |-> v, file |-> saved.ok,
           trusted |-> store_trusted_revision(trusted, v.revision, wr),
           rng |-> rngc + SaveDraws,
           log |-> <<"write vault.json", StoreEvent(wr)>>]

\* verify_loaded_revision with the comparison off by one: an equal revision
\* is refused as a rollback
verify_loaded_revision_le(vault, trusted, rd, wr) ==
  LET got == load_trusted_revision(trusted, rd)
  IN IF ~IsOk(got)
     THEN [res |-> Ok(TRUE), trusted |-> trusted,
           log |-> <<"load_trusted_revision failed">>]
     ELSE IF IsSome(got.ok) /\ vault.revision <= got.ok.some
     THEN [res |-> Err(ErrRollback), trusted |-> trusted,
           log |-> <<"load_trusted_revision">>]
     ELSE [res |-> Ok(TRUE),
           trusted |-> store_trusted_revision(trusted, vault.revision, wr),
           log |-> <<"load_trusted_revision", StoreEvent(wr)>>]

\* verify_loaded_revision that records the loaded revision before comparing
verify_loaded_revision_store_first(vault, trusted, rd, wr) ==
  LET got == load_trusted_revision(trusted, rd)
      stored == store_trusted_revision(trusted, vault.revision, wr)
  IN IF ~IsOk(got)
     THEN [res |-> Ok(TRUE), trusted |-> trusted,
           log |-> <<"load_trusted_revision failed">>]
     ELSE IF IsSome(got.ok) /\ vault.revision < got.ok.some
     THEN [res |-> Err(ErrRollback), trusted |-> stored,
           log |-> <<"load_trusted_revision", StoreEvent(wr)>>]
     ELSE [res |-> Ok(TRUE), trusted |-> stored,
           log |-> <<"load_trusted_revision", StoreEvent(wr)>>]

\* verify_loaded_revision that returns the store's read error to its caller
verify_loaded_revision_hard(vault, trusted, rd, wr) ==
  LET got == load_trusted_revision(trusted, rd)
  IN IF ~IsOk(got)
     THEN [res |-> got, trusted |-> trusted,
           log |-> <<"load_trusted_revision failed">>]
     ELSE IF IsSome(got.ok) /\ vault.revision < got.ok.some
     THEN [res |-> Err(ErrRollback), trusted |-> trusted,
           log |-> <<"load_trusted_revision">>]
     ELSE IF IsSome(got.ok) /\ vault.revision = got.ok.some
     THEN [res |-> Ok(TRUE), trusted |-> trusted,
           log |-> <<"load_trusted_revision">>]
     ELSE [res |-> Ok(TRUE),
           trusted |-> store_trusted_revision(trusted, vault.revision, wr),
           log |-> <<"load_trusted_revision", StoreEvent(wr)>>]

\* rd, wr: whether the store answers the read and accepts the write
verify_loaded_revision(vault, trusted, rd, wr) ==
  LET got == load_trusted_revision(trusted, rd)
  IN IF ~IsOk(got)
     THEN [res |-> Ok(TRUE), trusted |-> trusted,
           log |-> <<"load_trusted_revision failed">>]
     ELSE IF IsSome(got.ok) /\ vault.revision < got.ok.some
     THEN [res |-> Err(ErrRollback), trusted |-> trusted,
           log |-> <<"load_trusted_revision">>]
     ELSE IF IsSome(got.ok) /\ vault.revision > got.ok.some
     THEN [res |-> Ok(TRUE),
           trusted |-> store_trusted_revision(trusted, vault.revision, wr),
           log |-> <<"load_trusted_revision", StoreEvent(wr)>>]
     ELSE IF IsSome(got.ok)
     THEN [res |-> Ok(TRUE), trusted |-> trusted,
           log |-> <<"load_trusted_revision">>]
     ELSE [res |-> Ok(TRUE),
           trusted |-> store_trusted_revision(trusted, vault.revision, wr),
           log |-> <<"load_trusted_revision", StoreEvent(wr)>>]

\* f says which keyring calls of this attempt the store answers:
\* f.rk the read of vault-key, f.rr the read of vault-revision, f.w1 the
\* write made by the migration save, f.w2 the write made by the check.
\* The result carries the attempt's effects: the vault file, the trusted
\* revision and the random source afterwards, and the calls made, in order.
attempt_unlock(file, meta, key_entry, trusted, password, rngc, f) ==
  LET unchanged(res, log) ==
        [res |-> res, file |-> file, trusted |-> trusted, rng |-> rngc, log |-> log]
      \* persist_vault_with_revision, then verify_loaded_revision
      migrate(loaded, log) ==
        LET p == persist_vault_with_revision(file, loaded.ok, password, trusted,
                                             rngc + loaded.drew, f.w1)
            c == verify_loaded_revision(p.vault, p.trusted, f.rr, f.w2)
        IN IF ~IsOk(p.res)
           THEN [res |-> p.res, file |-> p.file, trusted |-> p.trusted,
                 rng |-> p.rng, log |-> log \o p.log]
           ELSE [res |-> IF IsOk(c.res) THEN Ok(p.vault) ELSE c.res,
                 file |-> p.file, trusted |-> c.trusted, rng |-> p.rng,
                 log |-> log \o p.log \o c.log]
      wrapped == is_wrapped_vault_file(file)
  IN IF ~Exists(file) THEN unchanged(Err(ErrNotFound), <<>>)
     ELSE IF ~IsOk(wrapped) THEN unchanged(wrapped, <<"read vault.json">>)
     ELSE IF wrapped.ok
     THEN LET loaded == load_vault(file, password, rngc)
              c == verify_loaded_revision(loaded.ok, trusted, f.rr, f.w2)
          IN IF ~IsOk(loaded)
             THEN unchanged(loaded, <<"read vault.json", "load_vault">>)
             ELSE [res |-> IF IsOk(c.res) THEN Ok(loaded.ok) ELSE c.res,
                   file |-> file, trusted |-> c.trusted, rng |-> rngc + loaded.drew,
                   log |-> <<"read vault.json", "load_vault">> \o c.log]
     ELSE LET m == load_meta(meta)
          IN IF ~IsOk(m) THEN unchanged(m, <<"read vault.json", "read meta.json">>)
             ELSE IF IsSome(m.ok)
             THEN LET auth == verify_master(password, m.ok.some.master_hash)
                      k == load_wrapped_key(key_entry, f.rk)
                      byKey == load_vault_with_key(file, RawKey(k.ok.some), rngc)
                      byPw == load_vault_legacy(file, password, rngc)
                      pre == <<"read vault.json", "read meta.json", "verify_master">>
                  IN IF ~IsOk(auth) THEN unchanged(auth, pre)
                     ELSE IF ~IsOk(k)
                     THEN unchanged(k, pre \o <<"load_wrapped_key failed">>)
                     ELSE IF IsSome(k.ok) /\ IsOk(byKey)
                     THEN migrate(byKey, pre \o <<"load_wrapped_key", "load_vault_with_key">>)
                     ELSE IF IsSome(k.ok)
                     THEN IF IsOk(byPw)
                          THEN migrate(byPw, pre \o <<"load_wrapped_key",
                                         "load_vault_with_key", "load_vault_legacy">>)
                          ELSE unchanged(byPw, pre \o <<"load_wrapped_key",
                                         "load_vault_with_key", "load_vault_legacy">>)
                     ELSE IF IsOk(byPw)
                     THEN migrate(byPw, pre \o <<"load_wrapped_key", "load_vault_legacy">>)
                     ELSE unchanged(byPw, pre \o <<"load_wrapped_key", "load_vault_legacy">>)
             ELSE LET byPw == load_vault_legacy(file, password, rngc)
                      pre == <<"read vault.json", "read meta.json", "load_vault_legacy">>
                  IN IF IsOk(byPw) THEN migrate(byPw, pre) ELSE unchanged(byPw, pre)

\* ------------------------------------------------------------ the state
VARIABLES
  vaultFile,   \* vault.json: NoFile or the JSON object it holds
  metaFile,    \* meta.json
  lockFile,    \* lock.json
  trustedRev,  \* keyring entry vault-revision: None or Some(revision)
  legacyKey,   \* keyring entry vault-key: None or Some(key bytes)
  now,         \* unix_now()
  rng,         \* values OsRng has handed out
  pc,          \* per process: "idle", "unlock", "open", "done"
  attempts,    \* per process: unlock_screen's count of failed attempts
  vault,       \* per process: the vault held in memory, and once the process
               \* is done what that memory still holds
  master,      \* per process: the master passphrase held in memory, likewise
  last,        \* the last handler that ran: who, what, its result, its calls
  fs,          \* the file tree: real path |-> directory, symlink or file
  rpc,         \* where a run, or one write, stands in its steps on the file tree
  base,        \* the storage directory the run resolved: None or Some(path)
  rerr,        \* the error the run or the write ended with, "" if none
  wsrc         \* the write in progress: its destination, its bytes, what it replaces

\* the vault's contents, the keyring, the sessions
mainvars == <<vaultFile, metaFile, lockFile, trustedRev, legacyKey, now, rng,
              pc, attempts, vault, master, last>>
\* the file tree and the run's steps on it
fsvars == <<fs, rpc, base, rerr, wsrc>>
vars == <<mainvars, fsvars>>

\* the file tree is not looked at
FsOff ==
  /\ fs = <<>> /\ rpc = "off" /\ base = None /\ rerr = "" /\ wsrc = None

Pw0 == "Str0ng!Pass"
Entry1 ==
  [id |-> -20, name |-> "example.com", email |-> "a@b.com", password |-> "p@ss1",
   username |-> None, notes |-> Some("memo")]
Note1 == [id |-> -21, title |-> "todo", content |-> "text"]
Vault0(r) == [revision |-> r, entries |-> <<Entry1>>, notes |-> <<Note1>>]

\* files a vault directory can hold when a process starts
WrappedFile(r) == save_vault(Vault0(r), Pw0, -8).ok
LegacyPwFile(r) == encrypt_with_password(Pw0, to_vec(Vault0(r)), -3, -2)
LegacyKeyFile(r) == encrypt_with_key(RawKey(-9), to_vec(Vault0(r)), -2)
TamperedFiles ==
  { [WrappedFile(1) EXCEPT !.vault.nonce = B64Encode(-1)],
    [WrappedFile(1) EXCEPT !.wrapped_key.data = [raw |-> -1]],
    [WrappedFile(1) EXCEPT !.version = 3],
    [LegacyPwFile(1) EXCEPT !.nonce = B64Encode(-1)] }
\* revisions of the files and of the keyring entry at the start: the lowest
\* two and the highest the counter can hold
InitRevs == {0, 1, U64_MAX}
InitFiles ==
  {NoFile}
  \cup {WrappedFile(r) : r \in InitRevs}
  \cup {LegacyPwFile(r) : r \in InitRevs}
  \cup {LegacyKeyFile(r) : r \in InitRevs}
  \cup TamperedFiles
\* meta.json and the keyring's vault-key: neither, the hash alone, or both
InitLegacy ==
  { <<NoFile, None>>,
    <<[master_hash |-> PasswordHash(Pw0)], None>>,
    <<[master_hash |-> PasswordHash(Pw0)], Some(-9)>> }

NoRet == [p |-> 0, op |-> "", pw |-> "", err |-> "", log |-> <<>>]

Init ==
  /\ vaultFile \in InitFiles
  /\ \E l \in InitLegacy : metaFile = l[1] /\ legacyKey = l[2]
  /\ lockFile = NoFile
  /\ trustedRev \in {None} \cup {Some(r) : r \in InitRevs \ {0}}
  \* a first run finds no vault file, no meta.json and an empty keyring
  /\ ~Exists(vaultFile) => (trustedRev = None /\ ~Exists(metaFile))
  /\ now = 0
  /\ rng = 0
  /\ pc = [p \in Procs |-> "idle"]
  /\ attempts = [p \in Procs |-> 0]
  /\ vault = [p \in Procs |-> VaultDefault]
  /\ master = [p \in Procs |-> ""]
  /\ last = NoRet
  /\ FsOff

ErrOf(res) == IF IsOk(res) THEN "" ELSE res.err

\* run(): the lock check, then first-run initialisation or the unlock screen
Start(p, pw, wr) ==
  LET chk == ensure_lock_not_active(lockFile, now)
      s == persist_vault_with_revision(vaultFile, VaultDefault, pw, trustedRev, rng, wr)
  IN /\ pc[p] = "idle"
     /\ UNCHANGED fsvars
     /\ lockFile' = chk.lock
     /\ attempts' = [attempts EXCEPT ![p] = 0]
     /\ UNCHANGED <<metaFile, legacyKey, now>>
     /\ IF chk.exit
        THEN /\ pc' = [pc EXCEPT ![p] = "done"]
             /\ last' = [NoRet EXCEPT !.p = p, !.op = "locked", !.log = chk.log]
             /\ UNCHANGED <<vaultFile, trustedRev, rng, vault, master>>
        ELSE IF ~Exists(vaultFile)
        THEN \* initialize_new_vault
             /\ rng + SaveDraws <= MaxRng
             /\ vaultFile' = s.file
             /\ trustedRev' = s.trusted
             /\ rng' = s.rng
             /\ vault' = [vault EXCEPT ![p] = s.vault]
             /\ master' = [master EXCEPT ![p] = pw]
             /\ pc' = [pc EXCEPT ![p] = "open"]
             /\ last' = [p |-> p, op |-> "init", pw |-> pw, err |-> ErrOf(s.res),
                         log |-> chk.log \o s.log]
        ELSE /\ pc' = [pc EXCEPT ![p] = "unlock"]
             /\ last' = [NoRet EXCEPT !.p = p, !.op = "start", !.log = chk.log]
             /\ UNCHANGED <<vaultFile, trustedRev, rng, vault, master>>

\* an unlock that removes meta.json once the legacy file is migrated
Enter_drops_meta(p, pw, f) ==
  LET r == attempt_unlock(vaultFile, metaFile, legacyKey, trustedRev, pw, rng, f)
      failed == attempts[p] + 1
  IN /\ pc[p] = "unlock"
     /\ UNCHANGED fsvars
     /\ r.rng <= MaxRng
     /\ vaultFile' = r.file
     /\ trustedRev' = r.trusted
     /\ rng' = r.rng
     /\ last' = [p |-> p, op |-> "unlock", pw |-> pw, err |-> ErrOf(r.res), log |-> r.log]
     /\ metaFile' = IF IsOk(r.res) /\ is_wrapped_vault_file(vaultFile) = Ok(FALSE)
                    THEN NoFile ELSE metaFile
     /\ UNCHANGED <<legacyKey, now>>
     /\ IF IsOk(r.res)
        THEN /\ vault' = [vault EXCEPT ![p] = r.res.ok]
             /\ master' = [master EXCEPT ![p] = pw]
             /\ pc' = [pc EXCEPT ![p] = "open"]
             /\ UNCHANGED <<attempts, lockFile>>
        ELSE /\ attempts' = [attempts EXCEPT ![p] = failed]
             /\ UNCHANGED <<vault, master>>
             /\ IF failed >= MAX_ATTEMPTS
                THEN /\ lockFile' = set_lock(now, LOCK_SECONDS)
                     /\ pc' = [pc EXCEPT ![p] = "done"]
                ELSE UNCHANGED <<lockFile, pc>>

\* unlock_screen, Enter: one attempt with the typed passphrase
Enter(p, pw, f) ==
  LET r == attempt_unlock(vaultFile, metaFile, legacyKey, trustedRev, pw, rng, f)
      failed == attempts[p] + 1
  IN /\ pc[p] = "unlock"
     /\ UNCHANGED fsvars
     /\ r.rng <= MaxRng
     /\ vaultFile' = r.file
     /\ trustedRev' = r.trusted
     /\ rng' = r.rng
     /\ last' = [p |-> p, op |-> "unlock", pw |-> pw, err |-> ErrOf(r.res), log |-> r.log]
     /\ UNCHANGED <<metaFile, legacyKey, now>>
     /\ IF IsOk(r.res)
        THEN /\ vault' = [vault EXCEPT ![p] = r.res.ok]
             /\ master' = [master EXCEPT ![p] = pw]
             /\ pc' = [pc EXCEPT ![p] = "open"]
             /\ UNCHANGED <<attempts, lockFile>>
        ELSE /\ attempts' = [attempts EXCEPT ![p] = failed]
             /\ UNCHANGED <<vault, master>>
             /\ IF failed >= MAX_ATTEMPTS
                THEN /\ lockFile' = set_lock(now, LOCK_SECONDS)
                     /\ pc' = [pc EXCEPT ![p] = "done"]
                ELSE UNCHANGED <<lockFile, pc>>

\* unlock_screen, Esc, in a program that keeps the failures made so far by
\* writing the lock as it leaves
Cancel_locks(p) ==
  /\ pc[p] = "unlock"
  /\ pc' = [pc EXCEPT ![p] = "done"]
  /\ last' = [NoRet EXCEPT !.p = p, !.op = "cancel", !.err = "Cancelled"]
  /\ lockFile' = IF attempts[p] > 0 THEN set_lock(now, LOCK_SECONDS) ELSE lockFile
  /\ UNCHANGED fsvars
  /\ UNCHANGED <<vaultFile, metaFile, trustedRev, legacyKey, now, rng,
                 attempts, vault, master>>

\* unlock_screen, Esc
Cancel(p) ==
  /\ pc[p] = "unlock"
  /\ pc' = [pc EXCEPT ![p] = "done"]
  /\ last' = [NoRet EXCEPT !.p = p, !.op = "cancel", !.err = "Cancelled"]
  /\ UNCHANGED fsvars
  /\ UNCHANGED <<vaultFile, metaFile, lockFile, trustedRev, legacyKey, now, rng,
                 attempts, vault, master>>

\* the session's save after a mutation v of the vault in memory
Save(p, v, pw, op, wr) ==
  LET s == persist_vault_with_revision(vaultFile, v, pw, trustedRev, rng, wr)
  IN /\ UNCHANGED fsvars
     /\ vaultFile' = s.file
     /\ trustedRev' = s.trusted
     /\ rng' = s.rng
     /\ vault' = [vault EXCEPT ![p] = s.vault]
     /\ master' = [master EXCEPT ![p] = pw]
     /\ last' = [p |-> p, op |-> op, pw |-> pw, err |-> ErrOf(s.res), log |-> s.log]
     /\ UNCHANGED <<metaFile, lockFile, legacyKey, now, pc, attempts>>

\* handle_add_modal, Enter on the last step with the required fields filled
AddEntry(p, wr) ==
  LET entry == [id |-> rng + 1, name |-> "svc", email |-> "me@x.org",
                password |-> "s3cret", username |-> Some("me"), notes |-> None]
  IN /\ pc[p] = "open"
     /\ UNCHANGED fsvars
     /\ Len(vault[p].entries) < MaxEntries
     /\ rng + 1 + SaveDraws <= MaxRng
     /\ LET s == persist_vault_with_revision(
                   vaultFile, [vault[p] EXCEPT !.entries = Append(@, entry)],
                   master[p], trustedRev, rng + 1, wr)
        IN /\ vaultFile' = s.file
           /\ trustedRev' = s.trusted
           /\ rng' = s.rng
           /\ vault' = [vault EXCEPT ![p] = s.vault]
           /\ last' = [p |-> p, op |-> "add", pw |-> master[p], err |-> ErrOf(s.res), log |-> s.log]
           /\ UNCHANGED <<metaFile, lockFile, legacyKey, now, pc, attempts, master>>

\* handle_change_master_modal, Enter on the second step with a passphrase
\* that matches its confirmation, passes the policy and is not the current one
ChangeMaster(p, new, wr) ==
  /\ pc[p] = "open"
  /\ new # master[p]
  /\ rng + SaveDraws <= MaxRng
  /\ Save(p, vault[p], new, "master", wr)

\* the session ends (quit, or the idle timeout): zeroize_sensitive, then the
\* process returns
Quit(p) ==
  /\ pc[p] = "open"
  /\ pc' = [pc EXCEPT ![p] = "done"]
  /\ vault' = [vault EXCEPT ![p] = zeroize_sensitive(vault[p], master[p]).vault]
  /\ master' = [master EXCEPT ![p] = zeroize_sensitive(vault[p], master[p]).master]
  /\ last' = [NoRet EXCEPT !.p = p, !.op = "quit"]
  /\ UNCHANGED fsvars
  /\ UNCHANGED <<vaultFile, metaFile, lockFile, trustedRev, legacyKey, now, rng,
                 attempts>>

\* the clock
Tick ==
  /\ now + LOCK_SECONDS \div 2 <= MaxTime
  /\ now' = now + LOCK_SECONDS \div 2
  /\ UNCHANGED fsvars
  /\ UNCHANGED <<vaultFile, metaFile, lockFile, trustedRev, legacyKey, rng,
                 pc, attempts, vault, master, last>>

Faults == [rk : BOOLEAN, rr : BOOLEAN, w1 : BOOLEAN, w2 : BOOLEAN]

\* a later run of the program: a new process, with a memory of its own,
\* where one has ended
Restart(p) ==
  /\ pc[p] = "done"
  /\ pc' = [pc EXCEPT ![p] = "idle"]
  /\ attempts' = [attempts EXCEPT ![p] = 0]
  /\ vault' = [vault EXCEPT ![p] = VaultDefault]
  /\ master' = [master EXCEPT ![p] = ""]
  /\ last' = [NoRet EXCEPT !.p = p, !.op = "restart"]
  /\ UNCHANGED fsvars
  /\ UNCHANGED <<vaultFile, metaFile, lockFile, trustedRev, legacyKey, now, rng>>

\* what process p can do
Step(p) ==
  \/ \E pw \in Passphrases, wr \in BOOLEAN : Start(p, pw, wr)
  \/ \E pw \in Passphrases, f \in Faults : Enter(p, pw, f)
  \/ Cancel(p)
  \/ \E wr \in BOOLEAN : AddEntry(p, wr)
  \/ \E pw \in Passphrases, wr \in BOOLEAN : ChangeMaster(p, pw, wr)
  \/ Quit(p)

\* One process at a time, run after run, from every initial vault directory.
Next == Step(1) \/ Restart(1) \/ Tick

Spec == Init /\ [][Next]_vars

\* Two processes side by side on one vault directory.
InitTwo ==
  /\ Init
  /\ vaultFile \in {WrappedFile(1), LegacyPwFile(0)}
  /\ metaFile = NoFile
  /\ trustedRev = Some(1)

NextTwo == \E p \in Procs : Step(p)

SpecTwo == InitTwo /\ [][NextTwo]_vars

\* ------------------------------------------- storage.rs: paths and files
\* A path is the sequence of its components from the root. The file tree
\* maps the real path of each thing on disk (no symlink on the way to it)
\* to a directory with its mode, a symlink with its target, or a file with
\* its mode and bytes.
Home == <<"home">>
Outside == <<"outside">>
VAULT_DIR == ".terminal-vault"
VAULT_FILE == "vault.json"
LOCK_FILE == "lock.json"
META_FILE == "meta.json"
CONFIG_FILE == "config.json"
ParentDir == ".."

ErrTraversal == "parent traversal is not allowed"
ErrOutsideHome == "must be inside home directory"
ErrResolvesOutside == "resolves outside home directory"
ErrParentResolvesOutside == "parent resolves outside home directory"
ErrIo == "io error"

\* F of the value of v: v is evaluated once, then handed on
Then(v, F(_)) == CHOOSE r \in {F(x) : x \in {v}} : TRUE

Dir(mode) == [kind |-> "dir", mode |-> mode]
Link(to) == [kind |-> "link", to |-> to]
File(mode, data) == [kind |-> "file", mode |-> mode, data |-> data]

\* Path::starts_with, Path::parent, Path::file_name
starts_with(p, b) == Len(b) <= Len(p) /\ SubSeq(p, 1, Len(b)) = b
Parent(p) == SubSeq(p, 1, Len(p) - 1)
FileName(p) == p[Len(p)]

\* the real path the rest of a path leads to from the real directory cur,
\* following at most hops symlinks; None when something on the way is missing
RECURSIVE Walk(_, _, _, _)
Walk(t, cur, rest, hops) ==
  IF rest = <<>> THEN Some(cur)
  ELSE LET q == Append(cur, Head(rest))
       IN IF q \notin DOMAIN t THEN None
          ELSE IF t[q].kind = "link"
          THEN IF hops = 0 THEN None
               ELSE LET to == Walk(t, <<>>, t[q].to, hops - 1)
                    IN IF IsSome(to) THEN Walk(t, to.some, Tail(rest), hops - 1)
                       ELSE None
          ELSE IF t[q].kind = "file" /\ Tail(rest) # <<>> THEN None
          ELSE Walk(t, q, Tail(rest), hops)

\* fs::canonicalize: Some(real path), None when the path does not resolve
canonicalize(t, p) == Walk(t, <<>>, p, MaxHops)

\* Path::exists, Path::is_dir: both follow symlinks
PathExists(t, p) == IsSome(canonicalize(t, p))
IsDir(t, p) ==
  LET real == canonicalize(t, p)
  IN IsSome(real) /\ (real.some = <<>> \/ t[real.some].kind = "dir")

\* the bytes a reader of the path gets; None when there is no file there
ReadFile(t, p) ==
  LET real == canonicalize(t, p)
  IN IF IsSome(real) /\ real.some # <<>> /\ t[real.some].kind = "file"
     THEN Some(t[real.some].data) ELSE None

\* the real path of the directory entry a path names: its parent resolved,
\* its last component not
EntryOf(t, p) ==
  LET up == canonicalize(t, Parent(p))
  IN IF IsSome(up) /\ IsDir(t, Parent(p)) THEN Some(Append(up.some, FileName(p)))
     ELSE None

\* the mode of a directory fs::create_dir_all makes
NewDirMode == "0o755"

\* fs::create_dir_all: Ok(tree) with the missing directories made
RECURSIVE create_dir_all(_, _)
create_dir_all(t, p) ==
  IF p = <<>> \/ IsDir(t, p) THEN Ok(t)
  ELSE IF PathExists(t, p) THEN Err(ErrIo)
  ELSE Then(create_dir_all(t, Parent(p)), LAMBDA up :
         IF ~IsOk(up) THEN up
         ELSE Then(EntryOf(up.ok, p), LAMBDA e :
                IF ~IsSome(e) \/ e.some \in DOMAIN up.ok THEN Err(ErrIo)
                ELSE Ok(up.ok @@ (e.some :> Dir(NewDirMode)))))

\* fs::set_permissions: follows symlinks
set_permissions(t, p, mode) ==
  LET real == canonicalize(t, p)
  IN IF ~IsSome(real) \/ real.some = <<>> THEN Err(ErrIo)
     ELSE Ok([t EXCEPT ![real.some].mode = mode])

restrict_file(t, p) ==
  IF PathExists(t, p) THEN set_permissions(t, p, "0o600") ELSE Ok(t)

restrict_dir(t, p) ==
  IF PathExists(t, p) THEN set_permissions(t, p, "0o700") ELSE Ok(t)

restrict_dir_if_possible(t, p) == set_permissions(t, p, "0o700")

ensure_parent_dir(t, path) ==
  IF path = <<>> THEN Err("Invalid vault path")
  ELSE IF ~PathExists(t, Parent(path))
  THEN Then(create_dir_all(t, Parent(path)), LAMBDA made :
         IF ~IsOk(made) THEN made ELSE restrict_dir(made.ok, Parent(path)))
  ELSE restrict_dir(t, Parent(path))

default_base_dir == Append(Home, VAULT_DIR)
config_path == Append(default_base_dir, CONFIG_FILE)

\* a path as typed or configured: absolute, or relative to home
Candidate(home, raw) == IF raw.abs THEN raw.comps ELSE home \o raw.comps

\* the lexical checks alone, symlinks not resolved
resolve_vault_dir_under_home_lexical(t, raw, home) ==
  LET candidate == Candidate(home, raw)
  IN IF \E i \in 1..Len(candidate) : candidate[i] = ParentDir THEN Err(ErrTraversal)
     ELSE IF ~starts_with(candidate, home) THEN Err(ErrOutsideHome)
     ELSE Ok(candidate)

\* resolve_vault_dir_under_home
resolve_vault_dir_under_home(t, raw, home) ==
  LET candidate == Candidate(home, raw)
      real_home == canonicalize(t, home)
      home_real == IF IsSome(real_home) THEN real_home.some ELSE home
      candidate_real == canonicalize(t, candidate)
      parent_real == canonicalize(t, Parent(candidate))
  IN IF \E i \in 1..Len(candidate) : candidate[i] = ParentDir THEN Err(ErrTraversal)
     ELSE IF ~starts_with(candidate, home) THEN Err(ErrOutsideHome)
     ELSE IF PathExists(t, candidate)
     THEN IF ~starts_with(candidate_real.some, home_real)
          THEN Err(ErrResolvesOutside) ELSE Ok(candidate)
     ELSE IF candidate # <<>> /\ PathExists(t, Parent(candidate))
               /\ ~starts_with(parent_real.some, home_real)
     THEN Err(ErrParentResolvesOutside)
     ELSE Ok(candidate)

\* the lexical checks alone, symlinks not resolved
validate_configured_vault_dir_lexical(t, raw) ==
  LET candidate == Candidate(Home, raw)
  IN IF \E i \in 1..Len(candidate) : candidate[i] = ParentDir THEN Err(ErrTraversal)
     ELSE IF ~starts_with(candidate, Home) THEN Err(ErrOutsideHome)
     ELSE Ok(candidate)

\* validate_configured_vault_dir: the same checks, home from dirs::home_dir()
validate_configured_vault_dir(t, raw) ==
  LET home == Home
      candidate == Candidate(home, raw)
      real_home == canonicalize(t, home)
      home_real == IF IsSome(real_home) THEN real_home.some ELSE home
      real == canonicalize(t, candidate)
      real_parent == canonicalize(t, Parent(candidate))
  IN IF \E i \in 1..Len(candidate) : candidate[i] = ParentDir THEN Err(ErrTraversal)
     ELSE IF ~starts_with(candidate, home) THEN Err(ErrOutsideHome)
     ELSE IF PathExists(t, candidate)
     THEN IF ~starts_with(real.some, home_real)
          THEN Err(ErrResolvesOutside) ELSE Ok(candidate)
     ELSE IF candidate # <<>> /\ PathExists(t, Parent(candidate))
               /\ ~starts_with(real_parent.some, home_real)
     THEN Err(ErrParentResolvesOutside)
     ELSE Ok(candidate)

\* load_config: Ok(None) without config.json, Ok(Some(config)) when it parses
load_config(t) ==
  LET raw == ReadFile(t, config_path)
  IN IF ~IsSome(raw) THEN Ok(None)
     ELSE IF "vault_dir" \in DOMAIN raw.some THEN Ok(Some(raw.some))
     ELSE Err(ErrJson)

\* the default directory in place of a configured one that fails validation
configured_base_dir_fallback(t) ==
  LET cfg == load_config(t)
  IN IF ~IsOk(cfg) THEN cfg
     ELSE IF IsSome(cfg.ok) /\ IsOk(validate_configured_vault_dir(t, cfg.ok.some.vault_dir))
     THEN validate_configured_vault_dir(t, cfg.ok.some.vault_dir)
     ELSE Ok(default_base_dir)

configured_base_dir(t) ==
  LET cfg == load_config(t)
  IN IF ~IsOk(cfg) THEN cfg
     ELSE IF IsSome(cfg.ok) THEN validate_configured_vault_dir(t, cfg.ok.some.vault_dir)
     ELSE Ok(default_base_dir)

\* the tree with one entry set, and with one entry removed
Put(t, q, node) == [x \in DOMAIN t \cup {q} |-> IF x = q THEN node ELSE t[x]]
Remove(t, q) == [x \in DOMAIN t \ {q} |-> t[x]]

\* atomic_write, first part: the parent directory is made when missing
WriteParent(t, path) ==
  IF path = <<>> THEN Err("Invalid target path")
  ELSE IF ~PathExists(t, Parent(path))
  THEN Then(create_dir_all(t, Parent(path)), LAMBDA made :
         IF ~IsOk(made) THEN made ELSE restrict_dir(made.ok, Parent(path)))
  ELSE Ok(t)

\* NamedTempFile::new_in(parent): the entry of the temporary file
TempName == ".tmp"
\* a write in place: the bytes go to the destination's own entry
TempEntry_in_place(t, path) == EntryOf(t, path)

TempEntry(t, path) == EntryOf(t, Append(Parent(path), TempName))

\* NamedTempFile::persist: rename(2) of the temporary file over the entry the
\* path names; a symlink there is replaced, not followed
Persist(t, tmp, path) ==
  Then(EntryOf(t, path), LAMBDA e :
    IF ~IsSome(e) \/ tmp \notin DOMAIN t THEN Err(ErrIo)
    ELSE IF e.some \in DOMAIN t /\ t[e.some].kind = "dir" THEN Err(ErrIo)
    ELSE Ok([x \in (DOMAIN t \ {tmp}) \cup {e.some} |->
               IF x = e.some THEN t[tmp] ELSE t[x]]))

\* atomic_write when every step of it succeeds
atomic_write(t, path, bytes) ==
  Then(WriteParent(t, path), LAMBDA made :
    IF ~IsOk(made) THEN made
    ELSE Then(TempEntry(made.ok, path), LAMBDA tmp :
           IF ~IsSome(tmp) THEN Err(ErrIo)
           ELSE Then(Put(made.ok, tmp.some, File("0o600", bytes)), LAMBDA written :
                  Persist(written, tmp.some, path))))

\* the callers of atomic_write: the write, then restrict_file on the path
WriteRestricted(t, path, bytes) ==
  Then(atomic_write(t, path, bytes), LAMBDA w :
    IF ~IsOk(w) THEN w ELSE restrict_file(w.ok, path))

save_config(t, base_dir) ==
  Then(IF ~PathExists(t, Parent(config_path))
       THEN Then(create_dir_all(t, Parent(config_path)), LAMBDA c :
              IF ~IsOk(c) THEN c ELSE restrict_dir(c.ok, Parent(config_path)))
       ELSE Ok(t),
       LAMBDA made :
         IF ~IsOk(made) THEN made
         ELSE WriteRestricted(made.ok, config_path,
                              [vault_dir |-> [abs |-> TRUE, comps |-> base_dir]]))

\* clear_lock: remove_file when the path exists
clear_lock_file(t, path) ==
  IF PathExists(t, path) THEN Ok(Remove(t, EntryOf(t, path).some)) ELSE Ok(t)

\* --------------------------------------------- one atomic_write, step by step
\* The bytes are the sequence of the pieces write_all hands to the file.
Pieces == {1, 2}
Writes == UNION {[1..n -> Pieces] : n \in 1..MaxLen}
OldBytes == <<9>>
StateFiles == {VAULT_FILE, LOCK_FILE, CONFIG_FILE}

\* the trees a write begins on: the storage directory missing, empty, holding
\* the file, or holding a symlink of the file's name to a file outside home
TreesOfWrite(name) ==
  LET top == (Home :> Dir("0o755")) @@ (Outside :> Dir("0o755"))
      dir == top @@ (default_base_dir :> Dir("0o755"))
      dest == Append(default_base_dir, name)
  IN { top, dir,
       dir @@ (dest :> File("0o644", OldBytes)),
       dir @@ (dest :> Link(Append(Outside, name)))
           @@ (Append(Outside, name) :> File("0o644", OldBytes)) }

MainOff ==
  /\ vaultFile = NoFile /\ metaFile = NoFile /\ lockFile = NoFile
  /\ trustedRev = None /\ legacyKey = None /\ now = 0 /\ rng = 0
  /\ pc = [p \in Procs |-> "off"]
  /\ attempts = [p \in Procs |-> 0]
  /\ vault = [p \in Procs |-> VaultDefault]
  /\ master = [p \in Procs |-> ""]
  /\ last = NoRet

InitWrite ==
  /\ MainOff
  /\ \E name \in StateFiles, bytes \in Writes :
       /\ fs \in TreesOfWrite(name)
       /\ wsrc = [path |-> Append(default_base_dir, name), bytes |-> bytes,
                  old |-> ReadFile(fs, Append(default_base_dir, name)), tree |-> fs]
  /\ rpc = "w-begin" /\ base = None /\ rerr = ""

\* the temporary file of the write in progress
Tmp == TempEntry(fs, wsrc.path).some

\* atomic_write up to the creation of the temporary file
WBegin ==
  /\ rpc = "w-begin"
  /\ UNCHANGED <<mainvars, base, wsrc>>
  /\ \E made \in {WriteParent(fs, wsrc.path)} :
       IF IsOk(made) /\ IsSome(TempEntry(made.ok, wsrc.path))
       THEN /\ fs' = Put(made.ok, TempEntry(made.ok, wsrc.path).some, File("0o600", <<>>))
            /\ rpc' = "w-temp" /\ rerr' = rerr
       ELSE fs' = fs /\ rpc' = "w-failed" /\ rerr' = ErrIo

\* write_all: the next piece of the bytes reaches the temporary file
WWrite ==
  /\ rpc = "w-temp"
  /\ Len(fs[Tmp].data) < Len(wsrc.bytes)
  /\ fs' = [fs EXCEPT ![Tmp].data = Append(@, wsrc.bytes[Len(@) + 1])]
  /\ UNCHANGED <<mainvars, rpc, base, rerr, wsrc>>

\* flush and sync_all
WSync ==
  /\ rpc = "w-temp"
  /\ fs[Tmp].data = wsrc.bytes
  /\ rpc' = "w-synced"
  /\ UNCHANGED <<mainvars, fs, base, rerr, wsrc>>

\* persist
WPersist ==
  /\ rpc = "w-synced"
  /\ UNCHANGED <<mainvars, base, wsrc>>
  /\ \E done \in {Persist(fs, Tmp, wsrc.path)} :
       IF IsOk(done) THEN fs' = done.ok /\ rpc' = "w-written" /\ rerr' = rerr
       ELSE fs' = Remove(fs, Tmp) /\ rpc' = "w-failed" /\ rerr' = ErrIo

\* the caller's restrict_file
WRestrict ==
  /\ rpc = "w-written"
  /\ UNCHANGED <<mainvars, base, wsrc>>
  /\ \E r \in {restrict_file(fs, wsrc.path)} :
       IF IsOk(r) THEN fs' = r.ok /\ rpc' = "w-done" /\ rerr' = rerr
       ELSE fs' = fs /\ rpc' = "w-failed" /\ rerr' = ErrIo

\* a step on the temporary file fails: the error is returned and the
\* NamedTempFile, dropped, deletes its file
WFail ==
  /\ rpc \in {"w-temp", "w-synced"}
  /\ fs' = Remove(fs, Tmp)
  /\ rpc' = "w-failed" /\ rerr' = ErrIo
  /\ UNCHANGED <<mainvars, base, wsrc>>

\* the process or the machine dies: what is on disk stays
WCrash ==
  /\ rpc \in {"w-begin", "w-temp", "w-synced", "w-written"}
  /\ rpc' = "w-crashed"
  /\ UNCHANGED <<mainvars, fs, base, rerr, wsrc>>

NextWrite == WBegin \/ WWrite \/ WSync \/ WPersist \/ WRestrict \/ WFail \/ WCrash

SpecWrite == InitWrite /\ [][NextWrite]_vars

\* ------------------------------------ app.rs: a run up to the opened vault
Rel(comps) == [abs |-> FALSE, comps |-> comps]
Abs(comps) == [abs |-> TRUE, comps |-> comps]

\* the directories config.json names, or the user types at the prompt
RawPaths ==
  { Rel(<<"vaults", "personal">>), Rel(<<"vaults">>), Rel(<<"vaults", "personal", "deep">>),
    Rel(<<ParentDir, "outside">>), Abs(Outside), Abs(default_base_dir) }

Vaults == Append(Home, "vaults")
Personal == Append(Vaults, "personal")

\* what is at ~/.terminal-vault when the run begins: nothing, the directory
\* with some mode, and in it no config.json or one naming a directory
DefaultDirShapes ==
  {<<>>}
  \cup {default_base_dir :> Dir(m) : m \in {"0o755", "0o700"}}
  \cup {(default_base_dir :> Dir(m)) @@ (config_path :> File("0o644", [vault_dir |-> raw])) :
          m \in {"0o755", "0o700"}, raw \in RawPaths}

\* what is at ~/vaults: nothing, a directory, a symlink to a directory
\* outside home, a dangling symlink, and below it a directory or a symlink
VaultsShapes ==
  { <<>>,
    Vaults :> Dir("0o755"),
    Vaults :> Link(Outside),
    Vaults :> Link(Append(Outside, "gone")),
    (Vaults :> Dir("0o755")) @@ (Personal :> Dir("0o755")),
    (Vaults :> Dir("0o755")) @@ (Personal :> Link(Outside)),
    (Vaults :> Link(Outside)) @@ (Append(Outside, "personal") :> Dir("0o755")) }

TreesOfRun ==
  { (Home :> Dir("0o755")) @@ (Outside :> Dir("0o755")) @@ d @@ v :
      d \in DefaultDirShapes, v \in VaultsShapes }

InitDir ==
  /\ MainOff
  /\ fs \in TreesOfRun
  /\ rpc = "begin" /\ base = None /\ rerr = "" /\ wsrc = None

\* the run ends with an error
Failed(e) == rpc' = "failed" /\ rerr' = e /\ base' = None

\* create the chosen directory when missing, then restrict it
MakeDir(t, dir, always) ==
  Then(IF always \/ ~PathExists(t, dir) THEN create_dir_all(t, dir) ELSE Ok(t),
       LAMBDA made :
         IF ~IsOk(made) THEN made ELSE restrict_dir_if_possible(made.ok, dir))

\* select_or_init_base_dir with a config.json, or up to the prompt without
RunSelect ==
  /\ rpc = "begin"
  /\ UNCHANGED <<mainvars, wsrc>>
  /\ \E cfg \in {load_config(fs)} :
       IF ~IsOk(cfg) THEN Failed(cfg.err) /\ fs' = fs
       ELSE IF ~IsSome(cfg.ok)
       THEN rpc' = "prompt" /\ UNCHANGED <<fs, base, rerr>>
       ELSE \E dir \in {resolve_vault_dir_under_home(fs, cfg.ok.some.vault_dir, Home)} :
              IF ~IsOk(dir) THEN Failed(dir.err) /\ fs' = fs
              ELSE \E made \in {MakeDir(fs, dir.ok, FALSE)} :
                     IF ~IsOk(made) THEN Failed(made.err) /\ fs' = fs
                     ELSE fs' = made.ok /\ rpc' = "selected" /\ UNCHANGED <<base, rerr>>

\* select_or_init_base_dir, one turn of the prompt loop on the typed path
RunPrompt(raw) ==
  /\ rpc = "prompt"
  /\ UNCHANGED <<mainvars, wsrc>>
  /\ \E dir \in {resolve_vault_dir_under_home(fs, raw, Home)} :
       IF ~IsOk(dir)
       THEN \* the error is printed and the prompt comes again
            rpc' = "prompt" /\ rerr' = dir.err /\ UNCHANGED <<fs, base>>
       ELSE \E made \in {MakeDir(fs, dir.ok, TRUE)} :
              IF ~IsOk(made) THEN Failed(made.err) /\ fs' = fs
              ELSE \E saved \in {save_config(made.ok, dir.ok)} :
                     IF ~IsOk(saved) THEN Failed(saved.err) /\ fs' = made.ok
                     ELSE fs' = saved.ok /\ rpc' = "selected" /\ rerr' = ""
                            /\ base' = base

\* vault_path, lock_path, meta_path: configured_base_dir, three times over
\* one tree
RunPaths ==
  /\ rpc = "selected"
  /\ UNCHANGED <<mainvars, fs, wsrc>>
  /\ \E dir \in {configured_base_dir(fs)} :
       IF ~IsOk(dir) THEN Failed(dir.err)
       ELSE base' = Some(dir.ok) /\ rpc' = "paths" /\ rerr' = rerr

VaultPath == Append(base.some, VAULT_FILE)
LockPath == Append(base.some, LOCK_FILE)
MetaPath == Append(base.some, META_FILE)

\* ensure_parent_dir on both paths, then ensure_lock_not_active: with a
\* lock.json on disk the run exits when it is active, and removes it when not
RunEnsure(active) ==
  /\ rpc = "paths"
  /\ UNCHANGED <<mainvars, base, wsrc>>
  /\ \E one \in {ensure_parent_dir(fs, VaultPath)} :
       IF ~IsOk(one) THEN fs' = fs /\ rpc' = "failed" /\ rerr' = one.err
       ELSE \E two \in {ensure_parent_dir(one.ok, LockPath)} :
              IF ~IsOk(two) THEN fs' = one.ok /\ rpc' = "failed" /\ rerr' = two.err
              ELSE IF active /\ IsSome(ReadFile(two.ok, LockPath))
              THEN fs' = two.ok /\ rpc' = "locked" /\ rerr' = rerr
              ELSE fs' = clear_lock_file(two.ok, LockPath).ok /\ rpc' = "ready"
                     /\ rerr' = rerr

\* save_vault: first-run initialisation, a migration or a save of the session
RunSaveVault(bytes) ==
  /\ rpc = "ready"
  /\ UNCHANGED <<mainvars, base, wsrc>>
  /\ \E w \in {WriteRestricted(fs, VaultPath, bytes)} :
       IF IsOk(w) THEN fs' = w.ok /\ UNCHANGED <<rpc, rerr>>
       ELSE fs' = fs /\ rpc' = "failed" /\ rerr' = w.err

\* set_lock after the third failed attempt: save_lock, then exit
RunSetLock(bytes) ==
  /\ rpc = "ready"
  /\ IsSome(ReadFile(fs, VaultPath))
  /\ UNCHANGED <<mainvars, base, wsrc>>
  /\ \E w \in {WriteRestricted(fs, LockPath, bytes)} :
       IF IsOk(w) THEN fs' = w.ok /\ rpc' = "locked" /\ rerr' = rerr
       ELSE fs' = fs /\ rpc' = "failed" /\ rerr' = w.err

\* the program is run again
RunAgain ==
  /\ rpc \in {"ready", "locked", "failed"}
  /\ rpc' = "begin" /\ base' = None /\ rerr' = ""
  /\ UNCHANGED <<mainvars, fs, wsrc>>

\* between two runs ~/vaults, or the directory below it, is swapped for a
\* symlink: the arrangement validate_configured_vault_dir resolves next time
LinkTargets == {Outside, Append(Outside, "gone")}
Relink(q, to) ==
  /\ rpc = "begin"
  /\ q \in DOMAIN fs
  /\ fs[q] # Link(to)
  /\ fs' = Put([x \in {y \in DOMAIN fs : ~starts_with(y, q)} |-> fs[x]], q, Link(to))
  /\ UNCHANGED <<mainvars, rpc, base, rerr, wsrc>>

NextDir ==
  \/ RunSelect
  \/ \E raw \in RawPaths : RunPrompt(raw)
  \/ RunPaths
  \/ \E active \in BOOLEAN : RunEnsure(active)
  \/ \E bytes \in Writes : RunSaveVault(bytes)
  \/ \E bytes \in Writes : RunSetLock(bytes)
  \/ RunAgain
  \/ \E q \in {Vaults, Personal}, to \in LinkTargets : Relink(q, to)

SpecDir == InitDir /\ [][NextDir]_vars

\* ------------------------- two sessions saving to one vault file, step by step
\* serde_json::to_string_pretty(&wrapped): the five fields in order, each a
\* piece of the bytes; from_str reads them back, or fails
FieldOrder == <<"version", "kdf", "kdf_salt", "wrapped_key", "vault">>
ToBytes(file) == [i \in 1..Len(FieldOrder) |-> [k |-> FieldOrder[i], v |-> file[FieldOrder[i]]]]
FromBytes(data) ==
  IF Len(data) = Len(FieldOrder) /\ \A i \in 1..Len(data) : data[i].k = FieldOrder[i]
  THEN [k \in WrappedKeys |-> data[CHOOSE i \in 1..Len(data) : data[i].k = k].v]
  ELSE [garbage |-> TRUE]

\* one temporary file for every writer
TempOfSession_shared(p, path) == TempEntry(fs, path)

\* NamedTempFile::new_in(parent): a name no other file of the directory has
TempOfSession(p, path) ==
  IF p = 1 THEN EntryOf(fs, Append(Parent(path), ".tmp1"))
  ELSE EntryOf(fs, Append(Parent(path), ".tmp2"))

RacePath == Append(default_base_dir, VAULT_FILE)
SessionNote(p) == [id |-> -30 - p, title |-> "from", content |-> IF p = 1 THEN "one" ELSE "two"]
NoWrite == [p \in Procs |-> None]

\* both sessions have unlocked the vault file and hold its vault
InitRace ==
  /\ vaultFile = NoFile /\ metaFile = NoFile /\ lockFile = NoFile
  /\ trustedRev = Some(1) /\ legacyKey = None /\ now = 0 /\ rng = 0
  /\ pc = [p \in Procs |-> "open"]
  /\ attempts = [p \in Procs |-> 0]
  /\ vault = [p \in Procs |-> Vault0(1)]
  /\ master = [p \in Procs |-> Pw0]
  /\ last = NoRet
  /\ fs = (Home :> Dir("0o755")) @@ (default_base_dir :> Dir("0o700"))
            @@ (RacePath :> File("0o600", ToBytes(WrappedFile(1))))
  /\ rpc = "race" /\ base = Some(default_base_dir) /\ rerr = "" /\ wsrc = NoWrite

\* a mutation of the session's vault, then persist_vault_with_revision up to
\* the creation of the temporary file: the revision is raised, save_vault
\* seals and serialises the vault, atomic_write creates the file
SBegin(p) ==
  /\ pc[p] = "open"
  /\ rng + SaveDraws <= MaxRng
  /\ \E v \in {[vault[p] EXCEPT !.notes = Append(@, SessionNote(p)),
                              !.revision = saturating_add(@)]} :
     \E tmp \in {TempOfSession(p, RacePath)} :
       /\ vault' = [vault EXCEPT ![p] = v]
       /\ wsrc' = [wsrc EXCEPT ![p] =
                     Some([tmp |-> tmp.some, bytes |-> ToBytes(save_vault(v, master[p], rng).ok)])]
       /\ fs' = Put(fs, tmp.some, File("0o600", <<>>))
  /\ rng' = rng + SaveDraws
  /\ pc' = [pc EXCEPT ![p] = "w-temp"]
  /\ last' = [NoRet EXCEPT !.p = p, !.op = "begin", !.pw = master[p]]
  /\ UNCHANGED <<vaultFile, metaFile, lockFile, trustedRev, legacyKey, now,
                 attempts, master, rpc, base, rerr>>

\* write_all: the next piece reaches the session's temporary file
SWrite(p) ==
  /\ pc[p] = "w-temp"
  /\ wsrc[p].some.tmp \in DOMAIN fs
  /\ Len(fs[wsrc[p].some.tmp].data) < Len(wsrc[p].some.bytes)
  /\ fs' = [fs EXCEPT ![wsrc[p].some.tmp].data =
              Append(@, wsrc[p].some.bytes[Len(@) + 1])]
  /\ last' = [NoRet EXCEPT !.p = p, !.op = "write", !.pw = master[p]]
  /\ UNCHANGED <<vaultFile, metaFile, lockFile, trustedRev, legacyKey, now, rng,
                 pc, attempts, vault, master, rpc, base, rerr, wsrc>>

\* flush and sync_all, once write_all has handed over every piece
SSync(p) ==
  /\ pc[p] = "w-temp"
  /\ wsrc[p].some.tmp \in DOMAIN fs
  /\ fs[wsrc[p].some.tmp].data = wsrc[p].some.bytes
  /\ pc' = [pc EXCEPT ![p] = "w-synced"]
  /\ last' = [NoRet EXCEPT !.p = p, !.op = "sync", !.pw = master[p]]
  /\ UNCHANGED <<vaultFile, metaFile, lockFile, trustedRev, legacyKey, now, rng,
                 attempts, vault, master, fs, rpc, base, rerr, wsrc>>

\* persist: the rename over vault.json; the save fails when it does
SPersist(p) ==
  /\ pc[p] = "w-synced"
  /\ \E done \in {Persist(fs, wsrc[p].some.tmp, RacePath)} :
       IF IsOk(done)
       THEN /\ fs' = done.ok
            /\ pc' = [pc EXCEPT ![p] = "w-written"]
            /\ last' = [NoRet EXCEPT !.p = p, !.op = "rename", !.pw = master[p]]
       ELSE /\ fs' = fs
            /\ pc' = [pc EXCEPT ![p] = "open"]
            /\ last' = [NoRet EXCEPT !.p = p, !.op = "rename", !.pw = master[p],
                                     !.err = ErrIo]
  /\ UNCHANGED <<vaultFile, metaFile, lockFile, trustedRev, legacyKey, now, rng,
                 attempts, vault, master, rpc, base, rerr, wsrc>>

\* a step of atomic_write on the temporary file fails (write_all, flush,
\* sync_all, persist), with the revision stored before the write was tried
SFail_store_first(p) ==
  /\ pc[p] \in {"w-temp", "w-synced"}
  /\ wsrc[p].some.tmp \in DOMAIN fs
  /\ fs' = Remove(fs, wsrc[p].some.tmp)
  /\ trustedRev' = store_trusted_revision(trustedRev, vault[p].revision, TRUE)
  /\ pc' = [pc EXCEPT ![p] = "open"]
  /\ wsrc' = [wsrc EXCEPT ![p] = None]
  /\ last' = [NoRet EXCEPT !.p = p, !.op = "failed", !.pw = master[p], !.err = ErrIo]
  /\ UNCHANGED <<vaultFile, metaFile, lockFile, legacyKey, now, rng,
                 attempts, vault, master, rpc, base, rerr>>

\* a step of atomic_write on the temporary file fails (write_all, flush,
\* sync_all, persist): the NamedTempFile, dropped, deletes its file, and the
\* error goes up through save_vault and persist_vault_with_revision, past
\* store_trusted_revision; the vault in memory keeps its raised revision
SFail(p) ==
  /\ pc[p] \in {"w-temp", "w-synced"}
  /\ wsrc[p].some.tmp \in DOMAIN fs
  /\ fs' = Remove(fs, wsrc[p].some.tmp)
  /\ trustedRev' = trustedRev
  /\ pc' = [pc EXCEPT ![p] = "open"]
  /\ wsrc' = [wsrc EXCEPT ![p] = None]
  /\ last' = [NoRet EXCEPT !.p = p, !.op = "failed", !.pw = master[p], !.err = ErrIo]
  /\ UNCHANGED <<vaultFile, metaFile, lockFile, legacyKey, now, rng,
                 attempts, vault, master, rpc, base, rerr>>

\* restrict_file on the path, then store_trusted_revision; the save returns.
\* An error of restrict_file goes up past store_trusted_revision
SRestrict(p, wr) ==
  /\ pc[p] = "w-written"
  /\ \E r \in {restrict_file(fs, RacePath)} :
       IF IsOk(r)
       THEN /\ fs' = r.ok
            /\ trustedRev' = store_trusted_revision(trustedRev, vault[p].revision, wr)
            /\ last' = [NoRet EXCEPT !.p = p, !.op = "saved", !.pw = master[p]]
       ELSE /\ fs' = fs
            /\ trustedRev' = trustedRev
            /\ last' = [NoRet EXCEPT !.p = p, !.op = "saved", !.pw = master[p],
                                     !.err = r.err]
  /\ pc' = [pc EXCEPT ![p] = "open"]
  /\ wsrc' = [wsrc EXCEPT ![p] = None]
  /\ UNCHANGED <<vaultFile, metaFile, lockFile, legacyKey, now, rng,
                 attempts, vault, master, rpc, base, rerr>>

NextRace ==
  \E p \in Procs :
    \/ SBegin(p)
    \/ SWrite(p)
    \/ SSync(p)
    \/ SPersist(p)
    \/ SFail(p)
    \/ \E wr \in BOOLEAN : SRestrict(p, wr)

SpecRace == InitRace /\ [][NextRace]_vars

\* ------------------------------------------- app.rs: generate_strong_password
\* the fill draws of a password are all enumerated up to this many
MaxFill == 9

upper ==
  <<"A", "B", "C", "D", "E", "F", "G", "H", "J", "K", "L", "M", "N", "P", "Q", "R", "S",
    "T", "U", "V", "W", "X", "Y", "Z">>
lower ==
  <<"a", "b", "c", "d", "e", "f", "g", "h", "i", "j", "k", "m", "n", "o", "p", "q", "r",
    "s", "t", "u", "v", "w", "x", "y", "z">>
digits == <<"2", "3", "4", "5", "6", "7", "8", "9">>
special ==
  <<"!", "@", "#", "$", "%", "^", "&", "*", "(", ")", "-", "_", "=", "+", "[", "]", "{",
    "}", ";", ":", ",", ".", "?">>
all == upper \o lower \o digits \o special

Max(a, b) == IF a >= b THEN a ELSE b

\* slice::choose: the element at the index the random source gives
choose(set, i) == set[i]

\* the while loop: one pick of the combined set pushed per turn
RECURSIVE Fill(_, _, _)
Fill(chars, target_len, picks) ==
  IF Len(chars) < target_len
  THEN Fill(Append(chars, choose(all, Head(picks))), target_len, Tail(picks))
  ELSE chars

\* slice::shuffle: for i from the last index down to the second, the element
\* at i is swapped with the one at js[i], an index of 1..i
RECURSIVE shuffle(_, _, _)
shuffle(chars, i, js) ==
  IF i < 2 THEN chars
  ELSE shuffle([chars EXCEPT ![i] = chars[js[i]], ![js[i]] = chars[i]], i - 1, js)

\* generate_strong_password that fills the whole length from the combined set
generate_strong_password_unseeded(len, r) ==
  LET target_len == Max(len, 12)
      picks == <<r.first[1], r.first[2], r.first[3], r.first[4]>> \o r.fill
      chars == Fill(<<>>, target_len, picks)
  IN shuffle(chars, Len(chars), r.js)

\* r holds what the random source gives: the four first picks, the picks
\* of the loop, the indices of the shuffle
generate_strong_password(len, r) ==
  LET target_len == Max(len, 12)
      chars == <<choose(upper, r.first[1]), choose(lower, r.first[2]),
                 choose(digits, r.first[3]), choose(special, r.first[4])>>
      filled == Fill(chars, target_len, r.fill)
  IN shuffle(filled, Len(filled), r.js)

\* lengths asked for: none, below, at and above the minimum, and the default
GenLens == {0, 11, 12, 13, 20}
\* outcomes of the random source: each pick the first or the last of its set;
\* the loop's picks all enumerated for a short fill, all alike for a long one;
\* the shuffle leaving the order, or swapping each place with the first or
\* with the one before
Ends(set) == {1, Len(set)}
Fills(n) ==
  IF n <= MaxFill THEN [1..n -> Ends(all)] ELSE {[i \in 1..n |-> c] : c \in Ends(all)}
Shuffles(n) == {[i \in 1..n |-> i], [i \in 1..n |-> 1], [i \in 1..n |-> Max(1, i - 1)]}
RandomOutcomes(len) ==
  LET n == Max(len, 12)
  IN { [first |-> <<u, l, d, s>>, fill |-> f, js |-> j] :
         u \in Ends(upper), l \in Ends(lower), d \in Ends(digits), s \in Ends(special),
         f \in Fills(n - 4), j \in Shuffles(n) }

InitGen ==
  /\ MainOff
  /\ fs = <<>> /\ rpc = "g-begin" /\ base = None /\ rerr = "" /\ wsrc = None

\* one call, as the add form's generator key and the --generate mode make it
Generate ==
  /\ rpc = "g-begin"
  /\ \E len \in GenLens : \E r \in RandomOutcomes(len) :
       wsrc' = [len |-> len, out |-> generate_strong_password(len, r)]
  /\ rpc' = "g-done"
  /\ UNCHANGED <<mainvars, fs, base, rerr>>

\* the caller takes the password; the next call starts afresh
Generated ==
  /\ rpc = "g-done"
  /\ rpc' = "g-begin" /\ wsrc' = None
  /\ UNCHANGED <<mainvars, fs, base, rerr>>

NextGen == Generate \/ Generated

SpecGen == InitGen /\ [][NextGen]_vars

\* ------------------------------------------------ app.rs: the forms of the TUI
\* char::is_ascii_uppercase, is_ascii_lowercase, is_ascii_digit and
\* is_ascii_punctuation; the backquote, punctuation too, has no string here
\* and is in no set the generator picks from
AsciiUpper ==
  {"A", "B", "C", "D", "E", "F", "G", "H", "I", "J", "K", "L", "M", "N", "O", "P", "Q",
   "R", "S", "T", "U", "V", "W", "X", "Y", "Z"}
AsciiLower ==
  {"a", "b", "c", "d", "e", "f", "g", "h", "i", "j", "k", "l", "m", "n", "o", "p", "q",
   "r", "s", "t", "u", "v", "w", "x", "y", "z"}
AsciiDigit == {"0", "1", "2", "3", "4", "5", "6", "7", "8", "9"}
AsciiPunctuation ==
  {"!", "\"", "#", "$", "%", "&", "'", "(", ")", "*", "+", ",", "-", ".", "/", ":", ";", "<",
   "=", ">", "?", "@", "[", "\\", "]", "^", "_", "{", "|", "}", "~"}
HasOneOf(s, class) == \E i \in 1..Len(s) : s[i] \in class

\* the text of a form field is the sequence of the characters typed
Whitespace == {" "}
RECURSIVE trim_start(_)
trim_start(s) == IF s # <<>> /\ Head(s) \in Whitespace THEN trim_start(Tail(s)) ELSE s
RECURSIVE trim_end(_)
trim_end(s) ==
  IF s # <<>> /\ s[Len(s)] \in Whitespace THEN trim_end(SubSeq(s, 1, Len(s) - 1)) ELSE s
trim(s) == trim_end(trim_start(s))
is_empty(s) == Len(s) = 0

\* handle_add_modal, Enter on the last step: the check of the required
\* fields, without trimming
AddRefused_untrimmed(form) ==
  is_empty(form.name) \/ is_empty(form.email) \/ is_empty(form.password)

\* handle_add_modal, Enter on the last step: the check of the required fields
AddRefused(form) ==
  is_empty(trim(form.name)) \/ is_empty(trim(form.email)) \/ is_empty(form.password)

\* handle_add_modal: the entry built from the form
AddFormEntry(form, id) ==
  [id |-> id, name |-> trim(form.name), email |-> trim(form.email),
   password |-> form.password,
   username |-> IF is_empty(trim(form.username)) THEN None ELSE Some(trim(form.username)),
   notes |-> IF is_empty(trim(form.notes)) THEN None ELSE Some(trim(form.notes))]

\* Vec::remove
RemoveAt(s, i) == [j \in 1..(Len(s) - 1) |-> IF j < i THEN s[j] ELSE s[j + 1]]

\* what is typed into the fields: nothing, blanks, text, text between blanks
FormTexts == {<<>>, <<" ">>, <<"a">>, <<" ", "a", " ">>}
FormPasswords == {<<>>, <<" ">>, <<"p">>}
\* what the add form holds when Enter is pressed on its last step
AddForm(name, email, password, username, notes) ==
  [name |-> name, email |-> email, password |-> password, username |-> username,
   notes |-> notes]
\* forms with the name, the email or the password empty, blank, filled or
\* padded, a form with nothing filled, and two full forms for two services
AddForms ==
  {AddForm(n, <<"m">>, <<"p">>, <<" ">>, <<" ">>) : n \in FormTexts}
    \cup {AddForm(<<"a">>, e, <<"p">>, <<" ">>, <<" ">>) : e \in FormTexts}
    \cup {AddForm(<<"a">>, <<"m">>, pw, <<" ">>, <<" ">>) : pw \in FormPasswords}
    \cup {AddForm(<<" ">>, <<>>, <<>>, <<" ">>, <<" ">>)}
    \cup {AddForm(n, <<"m">>, <<"p">>, <<"u">>, <<" ", "n">>) : n \in {<<"a">>, <<"b">>}}

FormEntry0 ==
  [id |-> -21, name |-> <<"a">>, email |-> <<"m">>, password |-> <<"p">>,
   username |-> None, notes |-> None]
FormNote0 == [id |-> -22, title |-> <<"t">>, content |-> <<"c">>]
\* three entries of two services, the entries of one service apart
FormEntries3 ==
  <<FormEntry0,
    [id |-> -23, name |-> <<"b">>, email |-> <<"m">>, password |-> <<"p">>,
     username |-> Some(<<"u">>), notes |-> None],
    [id |-> -24, name |-> <<"a">>, email |-> <<"n">>, password |-> <<"p">>,
     username |-> None, notes |-> Some(<<"n">>)]>>
\* a vault saved once, or one save below the top of the revision's range
FormVaults ==
  {[revision |-> r, entries |-> es, notes |-> ns] :
     r \in {1, U64_MAX - 1}, es \in {<<>>, <<FormEntry0>>},
     ns \in {<<>>, <<FormNote0>>}}
    \cup {[revision |-> 1, entries |-> FormEntries3, notes |-> <<FormNote0>>]}
\* run: the passwords session, the notes session, or the import of a text file
SessionModes == {"passwords", "notes", "text"}
\* what the editor leaves: the text saved, a failure status, or no launch
EditorOutcomes ==
  {[kind |-> "saved", content |-> c] : c \in {<<"c">>, <<"d">>}}
    \cup {[kind |-> "failed"], [kind |-> "no launch"]}
\* the random source at the start of a session: two adds, each one new_uuid
\* and one save, use up what is left of it
FormsRng0 == MaxRng - 2 * (SaveDraws + 1)

\* passphrases typed into the change-master form: the current one, another
\* that passes the policy, and one failing each rule of it
FormPw0 == <<"S", "t", "r", "0", "n", "g", "!", "P">>
FormPw1 == <<"0", "t", "h", "e", "r", "?", "P", "w">>
FormMasters ==
  {FormPw0, FormPw1,
   <<"A", "1", "!">>,
   <<"s", "t", "r", "0", "n", "g", "!", "p">>,
   <<"S", "t", "r", "o", "n", "g", "!", "P">>,
   <<"S", "t", "r", "0", "n", "g", " ", "P">>}

\* the two fields of the change form: the same text twice, or two texts
MasterForms ==
  {[new1 |-> m, new2 |-> m] : m \in FormMasters}
    \cup {[new1 |-> FormPw1, new2 |-> FormPw0], [new1 |-> FormPw0, new2 |-> FormPw1]}

\* one unlocked session, its vault saved and its revision stored
InitForms ==
  /\ fs = <<>> /\ rpc \in SessionModes /\ base = None /\ rerr = "" /\ wsrc = None
  /\ \E v \in FormVaults :
       /\ vault = (1 :> v) @@ [p \in Procs |-> VaultDefault]
       /\ vaultFile = save_vault(v, FormPw0, FormsRng0 - SaveDraws).ok
       /\ trustedRev = Some(v.revision)
  /\ metaFile = NoFile /\ lockFile = NoFile
  /\ legacyKey = None /\ now = 0 /\ rng = FormsRng0
  /\ pc = (1 :> "open") @@ [p \in Procs |-> "off"]
  /\ attempts = [p \in Procs |-> 0]
  /\ master = (1 :> FormPw0) @@ [p \in Procs |-> ""]
  /\ last = NoRet

\* a handler that sets the status line and returns without saving
FormRefuses(p, op) ==
  /\ last' = [p |-> p, op |-> op, pw |-> master[p], err |-> "", log |-> <<>>]
  /\ UNCHANGED <<vaultFile, metaFile, lockFile, trustedRev, legacyKey, now, rng, pc,
                 attempts, vault, master>>
  /\ UNCHANGED fsvars

\* a handler that saves the vault twice
SessionSave_twice(p, v, op, wr, drew, next, given) ==
  LET s1 == persist_vault_with_revision(vaultFile, v, master[p], trustedRev, rng + drew, wr)
      s == persist_vault_with_revision(s1.file, s1.vault, master[p], s1.trusted, rng + drew, wr)
  IN /\ rng + drew + SaveDraws <= MaxRng
     /\ vaultFile' = s.file
     /\ trustedRev' = s.trusted
     /\ rng' = s.rng
     /\ vault' = [vault EXCEPT ![p] = s.vault]
     /\ pc' = [pc EXCEPT ![p] = next]
     /\ last' = [p |-> p, op |-> op, pw |-> master[p], err |-> ErrOf(s.res),
                 log |-> s1.log \o s.log, form |-> given]
     /\ UNCHANGED <<metaFile, lockFile, legacyKey, now, attempts, master>>
     /\ UNCHANGED fsvars

\* persist_vault_with_revision after drew draws of the random source
\* (new_uuid), the session going on or returning after it; what the handler
\* was given is kept with the record of the call
SessionSave(p, v, op, wr, drew, next, given) ==
  LET s == persist_vault_with_revision(vaultFile, v, master[p], trustedRev, rng + drew, wr)
  IN /\ rng + drew + SaveDraws <= MaxRng
     /\ vaultFile' = s.file
     /\ trustedRev' = s.trusted
     /\ rng' = s.rng
     /\ vault' = [vault EXCEPT ![p] = s.vault]
     /\ pc' = [pc EXCEPT ![p] = next]
     /\ last' = [p |-> p, op |-> op, pw |-> master[p], err |-> ErrOf(s.res), log |-> s.log,
                 form |-> given]
     /\ UNCHANGED <<metaFile, lockFile, legacyKey, now, attempts, master>>
     /\ UNCHANGED fsvars

\* the characters of the texts typed here, in the order of their codes
CodeOrder == <<" ", "a", "b", "c", "d", "f", "m", "n", "p", "t", "u">>
Code(c) == CHOOSE i \in 1..Len(CodeOrder) : CodeOrder[i] = c
\* the order of str: by the first character that differs, the shorter first
RECURSIVE StrLess(_, _)
StrLess(a, b) ==
  IF b = <<>> THEN FALSE
  ELSE IF a = <<>> THEN TRUE
  ELSE IF Head(a) # Head(b) THEN Code(Head(a)) < Code(Head(b))
  ELSE StrLess(Tail(a), Tail(b))

\* names sorted, each once
RECURSIVE SortDedup(_)
SortDedup(names) ==
  IF names = {} THEN <<>>
  ELSE LET m == CHOOSE x \in names : \A y \in names : x = y \/ StrLess(x, y)
       IN <<m>> \o SortDedup(names \ {m})

unique_services(v) == SortDedup({v.entries[i].name : i \in 1..Len(v.entries)})

Min(a, b) == IF a <= b THEN a ELSE b

\* entries_for_service: the services, and the places in the vault of the
\* entries of the service at service_idx (counted from 0, clamped to the last)
entries_for_service(v, service_idx) ==
  LET services == unique_services(v)
      selected_service == services[Min(service_idx, Len(services) - 1) + 1]
  IN IF services = <<>> THEN [services |-> services, filtered |-> <<>>]
     ELSE [services |-> services,
           filtered |-> SelectSeq([i \in 1..Len(v.entries) |-> i],
                                  LAMBDA i : v.entries[i].name = selected_service)]

\* nth_entry_index that takes the nth entry of the vault
nth_entry_index_any(v, service, nth) ==
  IF nth + 1 <= Len(v.entries) THEN Some(nth) ELSE None

\* nth_entry_index: the place in the vault, counted from 0, of the nth entry
\* (from 0) whose name is the service
nth_entry_index(v, service, nth) ==
  LET hits == SelectSeq([i \in 1..Len(v.entries) |-> i],
                        LAMBDA i : v.entries[i].name = service)
  IN IF nth + 1 <= Len(hits) THEN Some(hits[nth + 1] - 1) ELSE None

\* r and d on the password screen: the entry the keys act on, if any
SelectedEntry(v, service_idx, entry_idx) ==
  LET es == entries_for_service(v, service_idx)
      selected_entry_idx == Min(entry_idx, Len(es.filtered) - 1)
      svc_name == IF es.services = <<>> THEN <<>>
                  ELSE es.services[Min(service_idx, Len(es.services) - 1) + 1]
  IN IF es.filtered = <<>> THEN None
     ELSE nth_entry_index(v, svc_name, selected_entry_idx)

\* ui.rs: validate_master_passphrase that asks for the length only
validate_master_passphrase_length(passphrase) ==
  IF Len(passphrase) < 8 THEN Err("Password should be at least 8 characters.")
  ELSE Ok(TRUE)

\* ui.rs: validate_master_passphrase
validate_master_passphrase(passphrase) ==
  IF Len(passphrase) < 8 THEN Err("Password should be at least 8 characters.")
  ELSE IF ~HasOneOf(passphrase, AsciiUpper)
  THEN Err("Password should include at least one uppercase letter.")
  ELSE IF ~HasOneOf(passphrase, AsciiDigit)
  THEN Err("Password should include at least one number.")
  ELSE IF ~\E i \in 1..Len(passphrase) :
             /\ passphrase[i] \notin AsciiUpper \cup AsciiLower \cup AsciiDigit
             /\ passphrase[i] \notin Whitespace
  THEN Err("Password should include at least one special character.")
  ELSE Ok(TRUE)

\* handle_change_master_modal, Enter on the second step; the form a save was
\* made of is kept with the record of the call
ChangeMasterSubmit(p, form, wr) ==
  /\ pc[p] = "open" /\ rpc = "passwords"
  /\ IF form.new1 # form.new2
     THEN FormRefuses(p, "master refused")
     ELSE IF ~IsOk(validate_master_passphrase(form.new1))
     THEN FormRefuses(p, "master refused")
     ELSE IF form.new1 = master[p]
     THEN FormRefuses(p, "master refused")
     ELSE /\ rng + SaveDraws <= MaxRng
          /\ LET s == persist_vault_with_revision(vaultFile, vault[p], form.new1,
                                                  trustedRev, rng, wr)
             IN /\ vaultFile' = s.file
                /\ trustedRev' = s.trusted
                /\ rng' = s.rng
                /\ vault' = [vault EXCEPT ![p] = s.vault]
                /\ master' = [master EXCEPT ![p] = form.new1]
                /\ last' = [p |-> p, op |-> "master", pw |-> form.new1,
                            err |-> ErrOf(s.res), log |-> s.log, form |-> form]
                /\ UNCHANGED <<metaFile, lockFile, legacyKey, now, pc, attempts>>
                /\ UNCHANGED fsvars

\* handle_add_modal, Enter on the last step; the form an entry was made of is
\* kept with the record of the call
AddSubmit(p, form, wr) ==
  /\ pc[p] = "open" /\ rpc = "passwords"
  /\ IF AddRefused(form)
     THEN FormRefuses(p, "add refused")
     ELSE /\ Len(vault[p].entries) < MaxEntries
          /\ rng + 1 + SaveDraws <= MaxRng
          /\ LET entry == AddFormEntry(form, rng + 1)
                 s == persist_vault_with_revision(
                        vaultFile, [vault[p] EXCEPT !.entries = Append(@, entry)],
                        master[p], trustedRev, rng + 1, wr)
             IN /\ vaultFile' = s.file
                /\ trustedRev' = s.trusted
                /\ rng' = s.rng
                /\ vault' = [vault EXCEPT ![p] = s.vault]
                /\ last' = [p |-> p, op |-> "add", pw |-> master[p], err |-> ErrOf(s.res),
                            log |-> s.log, form |-> form]
                /\ UNCHANGED <<metaFile, lockFile, legacyKey, now, pc, attempts, master>>
                /\ UNCHANGED fsvars

\* a change form that writes the password of the first entry of the vault
ChangeCredentialPassword_first(p, service_idx, entry_idx, new_password, wr) ==
  /\ pc[p] = "open" /\ rpc = "passwords"
  /\ IsSome(SelectedEntry(vault[p], service_idx, entry_idx))
  /\ IF is_empty(new_password)
     THEN FormRefuses(p, "password refused")
     ELSE IF vault[p].entries[1].password = new_password
     THEN FormRefuses(p, "password in use")
     ELSE SessionSave(p, [vault[p] EXCEPT !.entries[1].password = new_password],
                      "password", wr, 0, "open",
                      [service_idx |-> service_idx, entry_idx |-> entry_idx])

\* r on the selection, then Enter in handle_change_credential_password_modal;
\* the form takes every key between the two
ChangeCredentialPassword(p, service_idx, entry_idx, new_password, wr) ==
  /\ pc[p] = "open" /\ rpc = "passwords"
  /\ \E target_idx \in {SelectedEntry(vault[p], service_idx, entry_idx)} :
       /\ IsSome(target_idx)
       /\ IF is_empty(new_password)
          THEN FormRefuses(p, "password refused")
          ELSE IF vault[p].entries[target_idx.some + 1].password = new_password
          THEN FormRefuses(p, "password in use")
          ELSE SessionSave(p, [vault[p] EXCEPT !.entries[target_idx.some + 1].password =
                                 new_password],
                           "password", wr, 0, "open",
                           [service_idx |-> service_idx, entry_idx |-> entry_idx])

\* d on the selected credential, then y on the delete overlay; the overlay
\* takes every key between the two
DeleteCredential(p, service_idx, entry_idx, wr) ==
  /\ pc[p] = "open" /\ rpc = "passwords"
  /\ \E idx \in {SelectedEntry(vault[p], service_idx, entry_idx)} :
       /\ IsSome(idx)
       /\ SessionSave(p, [vault[p] EXCEPT !.entries =
                            IF idx.some < Len(@) THEN RemoveAt(@, idx.some + 1) ELSE @],
                      "delete", wr, 0, "open",
                      [service_idx |-> service_idx, entry_idx |-> entry_idx])

\* d with the focus on the services, then y on the delete overlay: Vec::retain
\* with the name of the service at service_idx, or the empty name when there
\* is no service
DeleteService(p, service_idx, wr) ==
  /\ pc[p] = "open" /\ rpc = "passwords"
  /\ \E services \in {unique_services(vault[p])} :
     \E service \in {IF services = <<>> THEN <<>>
                     ELSE services[Min(service_idx, Len(services) - 1) + 1]} :
       SessionSave(p, [vault[p] EXCEPT !.entries = SelectSeq(@, LAMBDA e : e.name # service)],
                   "delete service", wr, 0, "open", [service_idx |-> service_idx])

\* a handler returns to run, with an error through `?` or without one, and
\* run returns
SessionEnds(p, op, e) ==
  /\ pc' = [pc EXCEPT ![p] = "done"]
  /\ last' = [p |-> p, op |-> op, pw |-> master[p], err |-> e, log |-> <<>>]
  /\ UNCHANGED <<vaultFile, metaFile, lockFile, trustedRev, legacyKey, now, rng,
                 attempts, vault, master>>
  /\ UNCHANGED fsvars

\* Esc, or n on an overlay: the form or the overlay is closed
FormCancelled(p) ==
  /\ pc[p] = "open"
  /\ rpc \in {"passwords", "notes"}
  /\ FormRefuses(p, "cancelled")

\* run_tui_notes, Enter on the title prompt: the editor, then the save
AddNote(p, title, ed, wr) ==
  /\ pc[p] = "open" /\ rpc = "notes"
  /\ IF is_empty(trim(title)) THEN FormRefuses(p, "title required")
     ELSE IF ed.kind = "no launch" THEN SessionEnds(p, "note add", "Failed to launch editor")
     ELSE IF ed.kind = "failed" THEN FormRefuses(p, "editor cancelled")
     ELSE /\ Len(vault[p].notes) < MaxEntries
          /\ SessionSave(p, [vault[p] EXCEPT !.notes =
                               Append(@, [id |-> rng + 1, title |-> trim(title),
                                          content |-> ed.content])],
                         "note add", wr, 1, "open", [title |-> title])

\* run_tui_notes, Right on the note at note_idx: the editor, then the save
EditNote(p, note_idx, ed, wr) ==
  /\ pc[p] = "open" /\ rpc = "notes"
  /\ note_idx \in 1..Len(vault[p].notes)
  /\ IF ed.kind = "no launch" THEN SessionEnds(p, "note edit", "Failed to launch editor")
     ELSE IF ed.kind = "failed" THEN FormRefuses(p, "editor cancelled")
     ELSE SessionSave(p, [vault[p] EXCEPT !.notes[note_idx] =
                            [id |-> @.id, title |-> @.title, content |-> ed.content]],
                      "note edit", wr, 0, "open", [note_idx |-> note_idx])

\* run_tui_notes, y on the delete overlay opened on the note at note_idx
DeleteNote(p, note_idx, wr) ==
  /\ pc[p] = "open" /\ rpc = "notes"
  /\ note_idx \in 1..Len(vault[p].notes)
  /\ SessionSave(p, [vault[p] EXCEPT !.notes = RemoveAt(@, note_idx)], "note delete", wr,
                 0, "open", [note_idx |-> note_idx])

\* handle_text_mode: the file's name is the title, its text the content; a
\* note of that title is overwritten when the answer is y or yes; run returns
TextImport(p, title, content, ans, wr) ==
  /\ pc[p] = "open" /\ rpc = "text"
  /\ LET found == {i \in 1..Len(vault[p].notes) : vault[p].notes[i].title = title}
         idx == CHOOSE i \in found : \A j \in found : i <= j
     IN IF found # {} /\ ans \notin {"y", "yes"}
        THEN SessionEnds(p, "declined", "")
        ELSE IF found # {}
        THEN SessionSave(p, [vault[p] EXCEPT !.notes[idx].content = content],
                         "import", wr, 0, "done", [title |-> title])
        ELSE /\ Len(vault[p].notes) < MaxEntries
             /\ SessionSave(p, [vault[p] EXCEPT !.notes =
                                  Append(@, [id |-> rng + 1, title |-> title,
                                             content |-> content])],
                            "import", wr, 1, "done", [title |-> title])

NoteTitles == {<<" ">>, <<"t">>, <<" ", "u">>}

NextForms ==
  \E wr \in BOOLEAN :
    \/ \E form \in AddForms : AddSubmit(1, form, wr)
    \/ \E service_idx, entry_idx \in 0..(MaxEntries - 1) : \E pw \in FormPasswords :
         ChangeCredentialPassword(1, service_idx, entry_idx, pw, wr)
    \/ \E service_idx, entry_idx \in 0..(MaxEntries - 1) :
         DeleteCredential(1, service_idx, entry_idx, wr)
    \/ \E service_idx \in 0..(MaxEntries - 1) : DeleteService(1, service_idx, wr)
    \/ \E form \in MasterForms : ChangeMasterSubmit(1, form, wr)
    \/ \E ed \in EditorOutcomes : \E title \in NoteTitles : AddNote(1, title, ed, wr)
    \/ \E ed \in EditorOutcomes : \E note_idx \in 1..MaxEntries : EditNote(1, note_idx, ed, wr)
    \/ \E note_idx \in 1..MaxEntries : DeleteNote(1, note_idx, wr)
    \/ \E title \in {<<"t">>, <<"f">>} : \E content \in {<<"c">>, <<"d">>} :
       \E ans \in {"y", "n"} : TextImport(1, title, content, ans, wr)
    \/ FormCancelled(1)

SpecForms == InitForms /\ [][NextForms]_vars

\* ------------------------------------- app.rs, ui.rs: the loop of a session
\* run_tui_passwords and run_tui_notes: the idle timeout, the clipboard and
\* the threads that clear it. Here now is the clock of the loop in seconds,
\* rpc the mode of the session, and wsrc holds the locals of the loop and
\* what is outside the vault: last_activity, quit_overlay, the text on the
\* clipboard, the last copy made (its text and its time), and the times at
\* which the sleeping threads wake.
CLIPBOARD_LIFETIME_SECS == 20
IDLE_TIMEOUT_SECS == 120

\* String::new()
EmptyText == <<>>
\* what the clipboard holds before the session copies anything
OtherText == <<"o">>

SessionVault == [revision |-> 1, entries |-> <<FormEntry0>>, notes |-> <<FormNote0>>]
\* the random source lets the session save once
SessionRng0 == MaxRng - SaveDraws

InitSession ==
  /\ fs = <<>> /\ rpc \in {"passwords", "notes"} /\ base = None /\ rerr = ""
  /\ wsrc = [last_activity |-> 0, quit_overlay |-> FALSE, clipboard |-> OtherText,
             copied |-> None, sleepers |-> {}]
  /\ vault = (1 :> SessionVault) @@ [p \in Procs |-> VaultDefault]
  /\ vaultFile = save_vault(SessionVault, FormPw0, SessionRng0 - SaveDraws).ok
  /\ trustedRev = Some(SessionVault.revision)
  /\ metaFile = NoFile /\ lockFile = NoFile
  /\ legacyKey = None /\ now = 0 /\ rng = SessionRng0
  /\ pc = (1 :> "open") @@ [p \in Procs |-> "off"]
  /\ attempts = [p \in Procs |-> 0]
  /\ master = (1 :> FormPw0) @@ [p \in Procs |-> ""]
  /\ last = NoRet

\* last_activity.elapsed()
Elapsed == now - wsrc.last_activity

\* the loop is polling: the idle check at its top has let it through
Polling(p) == pc[p] = "open" /\ Elapsed < IDLE_TIMEOUT_SECS

\* the loop is left, the terminal restored, run calls zeroize_sensitive and
\* returns: the process ends and its sleeping threads with it
SessionTeardown(p, op) ==
  /\ pc' = [pc EXCEPT ![p] = "done"]
  /\ vault' = [vault EXCEPT ![p] = zeroize_sensitive(vault[p], master[p]).vault]
  /\ master' = [master EXCEPT ![p] = zeroize_sensitive(vault[p], master[p]).master]
  /\ last' = [NoRet EXCEPT !.p = p, !.op = op]
  /\ UNCHANGED <<vaultFile, metaFile, lockFile, trustedRev, legacyKey, now, rng, attempts>>
  /\ UNCHANGED <<fs, rpc, base, rerr>>

\* the top of the loop: last_activity.elapsed() >= IDLE_TIMEOUT_SECS, break
IdleTimeout(p) ==
  /\ pc[p] = "open"
  /\ Elapsed >= IDLE_TIMEOUT_SECS
  /\ wsrc' = [wsrc EXCEPT !.sleepers = {}]
  /\ SessionTeardown(p, "idle timeout")

\* Event::Key: last_activity = Instant::now(), then the key. Esc opens the
\* quit overlay; on the overlay y breaks the loop, n or Esc closes it, any
\* other key does nothing; a key with no handler does nothing
SessionKey(p, key) ==
  /\ Polling(p)
  /\ IF wsrc.quit_overlay /\ key = "y"
     THEN /\ wsrc' = [wsrc EXCEPT !.last_activity = now, !.sleepers = {}]
          /\ SessionTeardown(p, "quit")
     ELSE /\ wsrc' = [wsrc EXCEPT !.last_activity = now,
                                  !.quit_overlay =
                                    IF @ THEN key \notin {"n", "Esc"} ELSE key = "Esc"]
          /\ last' = [NoRet EXCEPT !.p = p, !.op = "key"]
          /\ UNCHANGED <<vaultFile, metaFile, lockFile, trustedRev, legacyKey, now, rng,
                         pc, attempts, vault, master>>
          /\ UNCHANGED <<fs, rpc, base, rerr>>

\* what c or Enter copies: the password of the selected entry, or the
\* content of the selected note
Selected(p) ==
  IF rpc = "passwords" THEN vault[p].entries[1].password ELSE vault[p].notes[1].content

\* c or Enter on the selection: copy_password_to_clipboard or
\* copy_note_to_clipboard. up: whether the clipboard is there and takes the
\* text; then a thread is started that sleeps CLIPBOARD_LIFETIME_SECS
SessionCopy(p, up) ==
  /\ Polling(p)
  /\ ~wsrc.quit_overlay
  /\ wsrc' = IF up
             THEN [wsrc EXCEPT !.last_activity = now, !.clipboard = Selected(p),
                               !.copied = Some([text |-> Selected(p), at |-> now]),
                               !.sleepers = @ \cup {now + CLIPBOARD_LIFETIME_SECS}]
             ELSE [wsrc EXCEPT !.last_activity = now]
  /\ last' = [NoRet EXCEPT !.p = p, !.op = "copy",
                           !.err = IF up THEN "" ELSE "Clipboard unavailable"]
  /\ UNCHANGED <<vaultFile, metaFile, lockFile, trustedRev, legacyKey, now, rng,
                 pc, attempts, vault, master>>
  /\ UNCHANGED <<fs, rpc, base, rerr>>

\* a sleeping thread wakes: clip.set_text(String::new())
SleeperWakes ==
  /\ \E w \in wsrc.sleepers :
       /\ now >= w
       /\ wsrc' = [wsrc EXCEPT !.clipboard = EmptyText, !.sleepers = @ \ {w}]
  /\ UNCHANGED mainvars
  /\ UNCHANGED <<fs, rpc, base, rerr>>

\* run_tui_notes, Right on the selected note: edit_note_with_editor starts
\* the editor and waits in Command::status for it to end
OpenEditor(p) ==
  /\ Polling(p)
  /\ rpc = "notes"
  /\ ~wsrc.quit_overlay
  /\ rng + SaveDraws <= MaxRng
  /\ wsrc' = [wsrc EXCEPT !.last_activity = now]
  /\ pc' = [pc EXCEPT ![p] = "editor"]
  /\ last' = [NoRet EXCEPT !.p = p, !.op = "editor"]
  /\ UNCHANGED <<vaultFile, metaFile, lockFile, trustedRev, legacyKey, now, rng,
                 attempts, vault, master>>
  /\ UNCHANGED <<fs, rpc, base, rerr>>

\* the editor ends: with a failure status the note is left, else the note
\* takes the text of the file and the vault is saved; the loop goes on
EditorReturns(p, ed, wr) ==
  /\ pc[p] = "editor"
  /\ ed.kind \in {"saved", "failed"}
  /\ IF ed.kind = "failed"
     THEN /\ pc' = [pc EXCEPT ![p] = "open"]
          /\ last' = [p |-> p, op |-> "editor cancelled", pw |-> master[p], err |-> "",
                      log |-> <<>>]
          /\ UNCHANGED <<vaultFile, metaFile, lockFile, trustedRev, legacyKey, now, rng,
                         attempts, vault, master>>
          /\ UNCHANGED fsvars
     ELSE SessionSave(p, [vault[p] EXCEPT !.notes[1] =
                            [id |-> @.id, title |-> @.title, content |-> ed.content]],
                      "note edit", wr, 0, "open", [note_idx |-> 1])

\* time passes: d seconds. A sleeping thread wakes when its time has come,
\* and the loop, which polls for 200 ms at most, makes its idle check in the
\* second the timeout is reached in
Elapse(d) ==
  /\ now + d <= MaxTime
  /\ \A w \in wsrc.sleepers : now + d <= w
  /\ pc[1] = "open" => Elapsed + d <= IDLE_TIMEOUT_SECS
  /\ now' = now + d
  /\ UNCHANGED <<vaultFile, metaFile, lockFile, trustedRev, legacyKey, rng,
                 pc, attempts, vault, master, last>>
  /\ UNCHANGED fsvars

NextSession ==
  \/ \E key \in {"Esc", "y", "n", "x"} : SessionKey(1, key)
  \/ \E up \in BOOLEAN : SessionCopy(1, up)
  \/ SleeperWakes
  \/ OpenEditor(1)
  \/ \E ed \in EditorOutcomes : \E wr \in BOOLEAN : EditorReturns(1, ed, wr)
  \/ \E d \in {CLIPBOARD_LIFETIME_SECS \div 2, IDLE_TIMEOUT_SECS \div 2} : Elapse(d)
  \/ IdleTimeout(1)

SpecSession == InitSession /\ [][NextSession]_vars

\* ============================================================ the claims
\* the step is an unlock attempt (Enter on the unlock screen) of process p
Attempted(p) ==
  /\ pc[p] = "unlock"
  /\ last'.op = "unlock" /\ last'.p = p
  /\ (attempts'[p] # attempts[p] \/ pc'[p] = "open")

\* the step is the start of process p
Started(p) == pc[p] = "idle" /\ pc'[p] # "idle"

\* the store answered every call the handler made
StoreAnswered(log) ==
  \A i \in 1..Len(log) :
    log[i] \notin {"load_trusted_revision failed", "store_trusted_revision failed",
                   "load_wrapped_key failed"}

Has(log, e) == \E i \in 1..Len(log) : log[i] = e

IsWrappedV2(f) == is_wrapped_vault_file(f) = Ok(TRUE)
IsLegacy(f) == is_wrapped_vault_file(f) = Ok(FALSE) /\ Exists(f)

\* the revision inside a file's sealed vault record
EmbeddedRevision(f) ==
  IF IsWrappedV2(f) THEN f.vault.data.b64.pt.json.revision
  ELSE f.data.b64.pt.json.revision

TrustedLeq(a, b) == ~IsSome(a) \/ (IsSome(b) /\ a.some <= b.some)

\* C1: the Trusted Revision in the keyring never decreases: every step
\* leaves a value greater than or equal to the one it replaces.
C1_TrustedNeverDecreases == [][TrustedLeq(trustedRev, trustedRev')]_vars

\* C2 as stated: unlocking a wrapped-v2 file with the correct passphrase,
\* with Trusted Revision R in the store, fails with the rollback error and
\* leaves R when the file's revision is below R, and otherwise succeeds and
\* leaves the Trusted Revision equal to the file's revision.
C2_AsStated ==
  [][(/\ Attempted(1)
      /\ IsWrappedV2(vaultFile)
      /\ IsOk(load_vault(vaultFile, last'.pw, rng))
      /\ IsSome(trustedRev))
     => IF EmbeddedRevision(vaultFile) < trustedRev.some
        THEN last'.err = ErrRollback /\ trustedRev' = trustedRev
        ELSE /\ last'.err = "" /\ pc'[1] = "open"
             /\ trustedRev' = Some(EmbeddedRevision(vaultFile))]_vars

\* C2 amended: the same when the store answers the read of the Trusted
\* Revision; the Trusted Revision afterwards equals the file's revision when
\* the store accepts the write, and stays R when the store rejects it.
C2_WrappedRollbackCheck ==
  [][(/\ Attempted(1)
      /\ IsWrappedV2(vaultFile)
      /\ IsOk(load_vault(vaultFile, last'.pw, rng))
      /\ IsSome(trustedRev)
      /\ Has(last'.log, "load_trusted_revision"))
     => IF EmbeddedRevision(vaultFile) < trustedRev.some
        THEN last'.err = ErrRollback /\ trustedRev' = trustedRev
        ELSE /\ last'.err = "" /\ pc'[1] = "open"
             /\ trustedRev' = IF Has(last'.log, "store_trusted_revision failed")
                              THEN trustedRev
                              ELSE Some(EmbeddedRevision(vaultFile))]_vars

\* a wrapped-v2 unlock has raised the Trusted Revision to the file's revision
C2_Witness ==
  /\ last.op = "unlock" /\ last.err = "" /\ pc[1] = "open"
  /\ last.log = <<"read vault.json", "load_vault", "load_trusted_revision",
                  "store_trusted_revision">>
  /\ trustedRev = Some(vault[1].revision)

\* C3: a legacy-shape file that decrypts, holding a revision below the
\* Trusted Revision, makes the unlock attempt fail with the rollback error
\* (stated for attempts in which the store answered every call).
C3_LegacyRollbackCheck ==
  [][(/\ Attempted(1)
      /\ IsLegacy(vaultFile)
      /\ Has(last'.log, "write vault.json")
      /\ StoreAnswered(last'.log)
      /\ IsSome(trustedRev)
      /\ EmbeddedRevision(vaultFile) < trustedRev.some)
     => last'.err = ErrRollback]_vars

\* the last handler saved the vault it holds, and returned Ok
Saved ==
  /\ last.err = ""
  /\ \/ last.op \in {"init", "add", "master"}
     \/ last.op = "unlock" /\ Has(last.log, "write vault.json")

\* C4: loading the file a save wrote, with the passphrase it was saved
\* under, returns the entries and the notes of the saved vault.
C4_RoundTrip ==
  Saved =>
    LET r == load_vault(vaultFile, last.pw, rng)
    IN /\ IsOk(r)
       /\ r.ok.entries = vault[last.p].entries
       /\ r.ok.notes = vault[last.p].notes

\* a vault of two entries, with notes and username filled, and a note has been saved
C4_Witness ==
  /\ Saved /\ last.op = "add"
  /\ Len(vault[1].entries) = 2 /\ Len(vault[1].notes) = 1
  /\ IsSome(vault[1].entries[1].notes) /\ IsSome(vault[1].entries[2].username)

\* a file a save wrote: some passphrase opens it
WrittenBySave(f) ==
  IsWrappedV2(f) /\ \E pw \in Passphrases : IsOk(load_vault(f, pw, 0))
FilePass(f) == CHOOSE pw \in Passphrases : IsOk(load_vault(f, pw, 0))

\* C5: loading a saved file with another passphrase fails with the
\* decryption error and yields no vault, and the attempt that does so
\* leaves the vault file and the Trusted Revision as they were.
C5_WrongPassphrase ==
  [][/\ Saved' =>
          \A p2 \in Passphrases \ {last'.pw} :
            load_vault(vaultFile', p2, rng') = Err(ErrDecrypt)
     /\ (/\ Attempted(1)
         /\ WrittenBySave(vaultFile)
         /\ last'.pw # FilePass(vaultFile))
        => /\ last'.err = ErrDecrypt
           /\ pc'[1] = "unlock" \/ pc'[1] = "done"
           /\ vault'[1] = vault[1]
           /\ vaultFile' = vaultFile
           /\ trustedRev' = trustedRev]_vars

\* an attempt on a saved file with the wrong passphrase has failed
C5_Witness ==
  /\ last.op = "unlock" /\ last.err = ErrDecrypt
  /\ WrittenBySave(vaultFile) /\ last.pw # FilePass(vaultFile)
  /\ vault[1] = VaultDefault

\* a Lock State file is on disk and its unlock_at is strictly in the future
LockActive == Exists(lockFile) /\ now < lockFile.unlock_at

\* C6 as stated: while a Lock State with unlock_at in the future is on
\* disk, no process evaluates a passphrase, whenever it was started.
C6_AsStated == [][\A p \in Procs : Attempted(p) => ~LockActive]_vars

\* C6 amended: the lock is consulted at process start. A process that starts
\* while the lock is active exits there, touching nothing, and a process
\* reaches the unlock prompt, where passphrases are evaluated, only through
\* a start at which no lock was active.
C6_LockCheckedAtStart ==
  [][\A p \in Procs :
       /\ (Started(p) /\ LockActive)
          => /\ pc'[p] = "done" /\ last'.op = "locked"
             /\ UNCHANGED <<vaultFile, metaFile, lockFile, trustedRev, rng>>
       /\ (pc'[p] = "unlock" /\ pc[p] # "unlock") => (Started(p) /\ ~LockActive)
       /\ Attempted(p) => pc[p] = "unlock"]_vars

\* process 2 was refused at its start by the lock process 1 wrote
C6_Witness ==
  /\ last.op = "locked" /\ last.p = 2 /\ pc[2] = "done"
  /\ attempts[1] = MAX_ATTEMPTS /\ LockActive

\* C7: a session begins with zero failures; its first and second failed
\* attempt write no Lock State and stay at the prompt; the third writes
\* unlock_at = now + 120 s and ends the process, so no fourth passphrase is
\* evaluated in it.
C7_ThirdFailureLocks ==
  [][/\ (pc'[1] = "unlock" /\ pc[1] # "unlock") => attempts'[1] = 0
     /\ Attempted(1) => (attempts[1] < MAX_ATTEMPTS /\ lockFile = NoFile)
     /\ (Attempted(1) /\ last'.err # "")
        => /\ attempts'[1] = attempts[1] + 1
           /\ IF attempts'[1] < MAX_ATTEMPTS
              THEN lockFile' = NoFile /\ pc'[1] = "unlock"
              ELSE /\ attempts'[1] = 3
                   /\ lockFile' = [unlock_at |-> now + 120]
                   /\ pc'[1] = "done"]_vars

\* the third failure, at a time after the epoch, has locked the vault
C7_Witness ==
  /\ last.op = "unlock" /\ last.err # "" /\ pc[1] = "done"
  /\ attempts[1] = 3 /\ now > 0
  /\ lockFile = [unlock_at |-> now + 120]

\* C8: at process start a Lock State with unlock_at <= now is deleted and
\* the run goes on to the unlock prompt; one with unlock_at > now makes the
\* process exit and stays on disk as it was.
C8_StartLockCheck ==
  [][(Started(1) /\ Exists(lockFile))
     => IF lockFile.unlock_at <= now
        THEN lockFile' = NoFile /\ pc'[1] = "unlock" /\ last'.op = "start"
        ELSE lockFile' = lockFile /\ pc'[1] = "done" /\ last'.op = "locked"]_vars

\* a start has deleted an expired lock and reached the unlock prompt
C8_Witness ==
  /\ last.op = "start" /\ Has(last.log, "clear_lock")
  /\ pc[1] = "unlock" /\ lockFile = NoFile /\ now >= LOCK_SECONDS

\* the JSON of the vault sealed in a file
EmbeddedJson(f) ==
  IF IsWrappedV2(f) THEN f.vault.data.b64.pt.json ELSE f.data.b64.pt.json

LegacyEvents ==
  {"read meta.json", "verify_master", "load_wrapped_key", "load_wrapped_key failed",
   "load_vault_with_key", "load_vault_legacy"}

\* the step is a successful unlock of a legacy-shape file
LegacyUnlocked == Attempted(1) /\ IsLegacy(vaultFile) /\ last'.err = ""

\* the file is wrapped v2 and holds the entries and notes the legacy file held
MigratedSameContent ==
  /\ IsWrappedV2(vaultFile')
  /\ EmbeddedJson(vaultFile').entries = EmbeddedJson(vaultFile).entries
  /\ EmbeddedJson(vaultFile').notes = EmbeddedJson(vaultFile).notes
  /\ load_vault(vaultFile', last'.pw, rng').ok = vault'[1]

\* the next unlock with the same passphrase, the store answering as f says
SecondUnlock(f) ==
  attempt_unlock(vaultFile', metaFile', legacyKey', trustedRev', last'.pw, rng', f)

\* C9 as stated: after a successful legacy unlock the file is wrapped v2
\* with the same entries and notes and the legacy revision plus one, and a
\* second unlock with the same passphrase succeeds by the wrapped-v2 branch.
C9_AsStated ==
  [][LegacyUnlocked
     => /\ MigratedSameContent
        /\ EmbeddedRevision(vaultFile') = EmbeddedRevision(vaultFile) + 1
        /\ \A f \in Faults :
             /\ IsOk(SecondUnlock(f).res)
             /\ \A e \in LegacyEvents : ~Has(SecondUnlock(f).log, e)]_vars

\* C9 amended: the revision is the legacy revision plus one, held at the
\* top of the counter's range; the second unlock goes by the wrapped-v2
\* branch only, and succeeds when the store accepted a write of the Trusted
\* Revision during the first unlock.
C9_LegacyMigration ==
  [][LegacyUnlocked
     => /\ MigratedSameContent
        /\ EmbeddedRevision(vaultFile') =
             IF EmbeddedRevision(vaultFile) = U64_MAX THEN U64_MAX
             ELSE EmbeddedRevision(vaultFile) + 1
        /\ \A f \in Faults :
             /\ Has(last'.log, "store_trusted_revision") => IsOk(SecondUnlock(f).res)
             /\ SecondUnlock(f).file = vaultFile'
             /\ \A e \in LegacyEvents : ~Has(SecondUnlock(f).log, e)]_vars

\* a legacy file with meta.json has been unlocked and rewritten as wrapped v2
C9_Witness ==
  /\ last.op = "unlock" /\ last.err = "" /\ pc[1] = "open"
  /\ Has(last.log, "read meta.json") /\ Has(last.log, "write vault.json")
  /\ IsWrappedV2(vaultFile) /\ EmbeddedRevision(vaultFile) = vault[1].revision

\* C10: a failed attempt on a file detected as wrapped v2 ends with an
\* error, tries no legacy branch, and leaves vault.json, meta.json and the
\* Trusted Revision as they were.
C10_WrappedFailureTerminal ==
  [][(Attempted(1) /\ IsWrappedV2(vaultFile) /\ last'.err # "")
     => /\ pc'[1] # "open" /\ vault'[1] = vault[1]
        /\ \A e \in LegacyEvents \cup {"write vault.json"} : ~Has(last'.log, e)
        /\ vaultFile' = vaultFile
        /\ metaFile' = metaFile
        /\ legacyKey' = legacyKey
        /\ trustedRev' = trustedRev]_vars

\* a wrapped-v2 attempt with the correct passphrase has failed as a rollback
C10_Witness ==
  /\ last.op = "unlock" /\ last.err = ErrRollback
  /\ IsWrappedV2(vaultFile) /\ IsSome(trustedRev)
  /\ EmbeddedRevision(vaultFile) < trustedRev.some

\* the i-th call the handler made is e
At(log, i, e) == Len(log) >= i /\ log[i] = e

\* the step is an unlock attempt on a legacy file with meta.json present
LegacyMetaAttempt ==
  Attempted(1) /\ IsLegacy(vaultFile) /\ load_meta(metaFile) = Ok(Some(metaFile))

\* C11: in the legacy-meta branch the passphrase is verified against
\* master_hash first, and a failure ends the attempt before any key-store
\* read, decryption or write; after it the raw key of the store is tried
\* first when present, and password-derived decryption only when the key is
\* absent or decryption with it fails.
C11_LegacyMetaOrder ==
  [][LegacyMetaAttempt
     => LET log == last'.log
            authentic == metaFile.master_hash = PasswordHash(last'.pw)
        IN /\ At(log, 1, "read vault.json") /\ At(log, 2, "read meta.json")
           /\ At(log, 3, "verify_master")
           /\ ~authentic
              => /\ Len(log) = 3 /\ last'.err = ErrMismatch
                 /\ UNCHANGED <<vaultFile, metaFile, trustedRev, legacyKey, rng>>
           /\ (authentic /\ At(log, 4, "load_wrapped_key"))
              => IF IsSome(legacyKey)
                 THEN /\ At(log, 5, "load_vault_with_key")
                      /\ IF IsOk(load_vault_with_key(vaultFile, RawKey(legacyKey.some), rng))
                         THEN ~Has(log, "load_vault_legacy")
                         ELSE At(log, 6, "load_vault_legacy")
                 ELSE /\ At(log, 5, "load_vault_legacy")
                      /\ ~Has(log, "load_vault_with_key")]_vars

\* the raw key of the store failed on the file and the passphrase opened it
C11_Witness ==
  /\ last.op = "unlock" /\ last.err = "" /\ pc[1] = "open"
  /\ At(last.log, 5, "load_vault_with_key") /\ At(last.log, 6, "load_vault_legacy")
  /\ IsSome(legacyKey) /\ Exists(metaFile)

\* the step is a save made by process 1: first-run initialisation, an added
\* entry or a change of the master passphrase
SaveStep ==
  /\ last'.p = 1 /\ last'.op \in {"init", "add", "master"}
  /\ rng' # rng

\* the revision held in memory when the save began
RevisionBefore == IF last'.op = "init" THEN 0 ELSE vault[1].revision

\* C12: a save during which the store rejects the write of the Trusted
\* Revision still succeeds: vault.json is written with the incremented
\* revision, the handler returns success and the session goes on, and the
\* Trusted Revision keeps its previous value.
C12_StoreRejectsWrite ==
  [][(SaveStep /\ Has(last'.log, "store_trusted_revision failed"))
     => /\ last'.err = "" /\ pc'[1] = "open"
        /\ At(last'.log, 1, "write vault.json")
        /\ IsWrappedV2(vaultFile')
        /\ EmbeddedRevision(vaultFile') =
             IF RevisionBefore = U64_MAX THEN U64_MAX ELSE RevisionBefore + 1
        /\ vault'[1].revision = EmbeddedRevision(vaultFile')
        /\ trustedRev' = trustedRev]_vars

\* an entry was added while the store rejected the write: the file is ahead
\* of the Trusted Revision
C12_Witness ==
  /\ last.op = "add" /\ last.err = "" /\ pc[1] = "open"
  /\ Has(last.log, "store_trusted_revision failed")
  /\ IsSome(trustedRev) /\ trustedRev.some < EmbeddedRevision(vaultFile)

\* the step has the effects of an unlock attempt during which the store
\* answered as f says
AttemptWith(f) ==
  LET r == attempt_unlock(vaultFile, metaFile, legacyKey, trustedRev, last'.pw, rng, f)
  IN /\ Attempted(1)
     /\ last'.log = r.log /\ last'.err = ErrOf(r.res)
     /\ vaultFile' = r.file /\ trustedRev' = r.trusted /\ rng' = r.rng

\* C13: in the legacy-meta branch, after the passphrase matched the hash, a
\* failure of the store on the read of the legacy key fails the attempt
\* with the store's error, with no password-derived decryption and nothing
\* written; an absent entry lets the attempt go on with password-derived
\* decryption.
C13_LegacyKeyReadFailure ==
  [][\A f \in Faults :
       (/\ LegacyMetaAttempt /\ AttemptWith(f)
        /\ metaFile.master_hash = PasswordHash(last'.pw))
       => IF ~f.rk
          THEN /\ last'.err = ErrKeyring /\ pc'[1] # "open"
               /\ \A e \in {"load_vault_with_key", "load_vault_legacy", "write vault.json",
                            "store_trusted_revision"} : ~Has(last'.log, e)
               /\ UNCHANGED <<vaultFile, metaFile, trustedRev, legacyKey, rng, vault>>
          ELSE ~IsSome(legacyKey)
               => /\ At(last'.log, 5, "load_vault_legacy")
                  /\ ~Has(last'.log, "load_vault_with_key")
                  /\ last'.err # ErrKeyring]_vars

\* the store failed on the read of the legacy key and the attempt ended there
C13_Witness ==
  /\ last.op = "unlock" /\ last.err = ErrKeyring
  /\ last.log = <<"read vault.json", "read meta.json", "verify_master",
                  "load_wrapped_key failed">>
  /\ IsLegacy(vaultFile) /\ attempts[1] > 0

\* C19: every save raises the revision by exactly one, held at the top of
\* the counter's range: the revision read back from the written file is
\* min(r + 1, max) for the revision r in memory before the save, and the
\* session holds that same revision afterwards, so n saves give
\* min(r + n, max); a vault created at revision 0 and saved once reloads
\* with revision 1.
C19_RevisionPlusOne ==
  [][SaveStep
     => LET back == load_vault(vaultFile', last'.pw, rng')
            want == IF RevisionBefore + 1 <= U64_MAX THEN RevisionBefore + 1 ELSE U64_MAX
        IN /\ last'.err = "" /\ IsOk(back)
           /\ back.ok.revision = want
           /\ vault'[1].revision = want
           /\ last'.op = "init" => back.ok.revision = 1]_vars

\* a session that began at the top of the range has saved and stays there
C19_Witness ==
  /\ last.op = "add" /\ last.err = "" /\ pc[1] = "open"
  /\ Len(vault[1].entries) = MaxEntries
  /\ vault[1].revision = U64_MAX
  /\ load_vault(vaultFile, master[1], rng).ok.revision = U64_MAX

\* the (key, nonce) pairs under which the two records of a file were sealed
SealPairs(f) ==
  { <<f.wrapped_key.data.b64.k, f.wrapped_key.data.b64.n>>,
    <<f.vault.data.b64.k, f.vault.data.b64.n>> }

\* two written files share no salt, nonce, ciphertext or (key, nonce) pair
FreshlySealed(a, b) ==
  /\ a.kdf_salt # b.kdf_salt
  /\ a.wrapped_key.nonce # b.wrapped_key.nonce
  /\ a.vault.nonce # b.vault.nonce
  /\ a.wrapped_key.data # b.wrapped_key.data
  /\ a.vault.data # b.vault.data
  /\ a.vault.data.b64.k # b.vault.data.b64.k
  /\ Cardinality(SealPairs(a) \cup SealPairs(b)) = 4

\* C20: two successive saves of one vault under one passphrase draw a new
\* salt, a new data-encryption key and a new nonce for each record: the two
\* files differ in kdf_salt, in both nonces and in both ciphertexts, and no
\* (key, nonce) pair seals twice. The same holds between the file a save of
\* the session replaces and the file it writes.
C20_FreshSaltKeyNonces ==
  [][/\ SaveStep
        => LET first == save_vault(vault'[1], master'[1], rng')
               second == save_vault(vault'[1], master'[1], rng' + SaveDraws)
           IN IsOk(first) /\ IsOk(second) /\ FreshlySealed(first.ok, second.ok)
     /\ (SaveStep /\ WrittenBySave(vaultFile))
        => FreshlySealed(vaultFile, vaultFile')]_vars

\* a session has saved over a file an earlier save of it wrote
C20_Witness ==
  /\ last.op = "add" /\ last.err = "" /\ pc[1] = "open"
  /\ Len(vault[1].entries) = 2 /\ vault[1].revision = 3
  /\ WrittenBySave(vaultFile) /\ rng >= 2 * SaveDraws

\* a write is, or was, in progress
Writing == rpc \in {"w-begin", "w-temp", "w-synced", "w-written", "w-done",
                    "w-failed", "w-crashed"}

\* C14: whatever step of a write of a state file a crash or a failure
\* comes at, a reader of the destination path gets the complete previous
\* bytes (or no file, if there was none) or the complete new bytes: the
\* previous ones until the rename, the new ones from it on.
C14_OldOrNewNeverPartial ==
  Writing =>
    LET seen == ReadFile(fs, wsrc.path)
    IN /\ seen = wsrc.old \/ seen = Some(wsrc.bytes)
       /\ rpc \in {"w-begin", "w-temp", "w-synced", "w-failed"} => seen = wsrc.old
       /\ rpc \in {"w-written", "w-done"} => seen = Some(wsrc.bytes)
       /\ rpc = "w-done"
          => fs = WriteRestricted(wsrc.tree, wsrc.path, wsrc.bytes).ok

\* a crash with the temporary file half written: the reader gets the old bytes
C14_Witness ==
  /\ rpc = "w-crashed" /\ IsSome(wsrc.old)
  /\ Tmp \in DOMAIN fs /\ Len(fs[Tmp].data) = 1 /\ Len(wsrc.bytes) = 2
  /\ ReadFile(fs, wsrc.path) = wsrc.old

\* the state files the step wrote: created, or changed in bytes or mode
WrittenIn(names) ==
  {q \in DOMAIN fs' : /\ fs'[q].kind = "file" /\ FileName(q) \in names
                      /\ (q \notin DOMAIN fs \/ fs[q] # fs'[q])}

\* C15: after every completed write of a state file (vault, meta, config,
\* lock) the file has mode 0600 and the directory that holds it has mode
\* 0700, whatever mode the directory had before.
C15_ModesAfterWrite ==
  [][\A q \in WrittenIn({VAULT_FILE, META_FILE, CONFIG_FILE, LOCK_FILE}) :
       fs'[q].mode = "0o600" /\ fs'[Parent(q)].mode = "0o700"]_vars

\* ------------------------------------------------------------------- C16
\* what the claim says of a candidate on a tree: rejected when it has a
\* parent-directory component, or is not lexically inside home, or resolves
\* (itself when it exists, else its parent when that exists) outside home
ResolvedHome(t) ==
  IF IsSome(canonicalize(t, Home)) THEN canonicalize(t, Home).some ELSE Home
MustReject(t, c) ==
  \/ \E i \in 1..Len(c) : c[i] = ParentDir
  \/ ~starts_with(c, Home)
  \/ /\ PathExists(t, c)
     /\ ~starts_with(canonicalize(t, c).some, ResolvedHome(t))
  \/ /\ ~PathExists(t, c) /\ PathExists(t, Parent(c))
     /\ ~starts_with(canonicalize(t, Parent(c)).some, ResolvedHome(t))
NoLinks(t) == \A q \in DOMAIN t : t[q].kind # "link"

\* C16: on every file tree of a run, resolve_vault_dir_under_home and
\* validate_configured_vault_dir reject exactly the candidates with a
\* parent-directory component, not lexically inside home, or resolving (the
\* candidate when it exists, else its parent when that exists) outside the
\* resolved home, and return every other candidate, joined to home when
\* relative, unchanged; "../outside" is rejected, "vaults/personal" is
\* accepted on a tree without symlinks, and a symlink in home to a directory
\* outside home is rejected.
C16_PathResolver ==
  /\ \A raw \in RawPaths :
       LET c == Candidate(Home, raw)
           r == resolve_vault_dir_under_home(fs, raw, Home)
           v == validate_configured_vault_dir(fs, raw)
       IN /\ MustReject(fs, c) => ~IsOk(r) /\ ~IsOk(v)
          /\ ~MustReject(fs, c) => r = Ok(c) /\ v = Ok(c)
  /\ ~IsOk(resolve_vault_dir_under_home(fs, Rel(<<ParentDir, "outside">>), Home))
  /\ NoLinks(fs) =>
       resolve_vault_dir_under_home(fs, Rel(<<"vaults", "personal">>), Home) = Ok(Personal)
  /\ \A q \in {Vaults, Personal} :
       q \in DOMAIN fs /\ fs[q] = Link(Outside) =>
         ~IsOk(resolve_vault_dir_under_home(fs, Rel(SubSeq(q, 2, Len(q))), Home))
  /\ rpc \in {"prompt", "failed"} /\ rerr \in {ErrResolvesOutside, ErrParentResolvesOutside}
       => \E q \in DOMAIN fs : fs[q].kind = "link"

\* the resolver has turned down a symlink in home that points outside home
C16_Witness ==
  /\ rpc = "failed" /\ rerr = ErrResolvesOutside
  /\ Personal \in DOMAIN fs /\ fs[Personal] = Link(Outside)

\* ------------------------------------------------------------------- C17
\* the vault, meta and lock files the step creates, writes or removes
StateFilesTouched ==
  WrittenIn({VAULT_FILE, META_FILE, LOCK_FILE})
  \cup {q \in DOMAIN fs \ DOMAIN fs' : FileName(q) \in {VAULT_FILE, META_FILE, LOCK_FILE}}

ConfigFailsValidation(t) ==
  /\ IsOk(load_config(t)) /\ IsSome(load_config(t).ok)
  /\ MustReject(t, Candidate(Home, load_config(t).ok.some.vault_dir))

\* the step is the run's path selection (select_or_init_base_dir) or its
\* computation of the vault, lock and meta paths
PathStep == rpc \in {"begin", "selected"} /\ rpc' # rpc

PathErrors == {ErrTraversal, ErrOutsideHome, ErrResolvesOutside, ErrParentResolvesOutside}

\* C18: when config.json names a directory that fails path validation, the
\* run's path step ends the run with the validation error, no storage
\* directory is chosen (the default one is not used instead), and the step
\* leaves the file tree as it is; no vault, meta or lock file is created,
\* written or removed except by a run whose configured directory passed
\* validation and at that directory.
C18_InvalidConfigIsFatal ==
  [][/\ PathStep /\ ConfigFailsValidation(fs) =>
          /\ rpc' = "failed" /\ rerr' \in PathErrors /\ base' = None
          /\ fs' = fs
     /\ StateFilesTouched # {} /\ rpc # "begin" =>
          /\ ~ConfigFailsValidation(fs) /\ rpc \in {"paths", "ready"}
          /\ IsOk(load_config(fs)) /\ IsSome(load_config(fs).ok)
          /\ base = Some(Candidate(Home, load_config(fs).ok.some.vault_dir))
          /\ \A q \in StateFilesTouched : Parent(q) = canonicalize(fs, base.some).some
    ]_vars

\* a run has ended with the validation error of the directory config.json
\* names, at the computation of the vault path
C18_Witness ==
  /\ rpc = "failed" /\ rerr \in PathErrors /\ base = None
  /\ ConfigFailsValidation(fs)
  /\ PathExists(fs, Candidate(Home, load_config(fs).ok.some.vault_dir))
  /\ load_config(fs).ok.some.vault_dir = Rel(<<"vaults", "personal", "deep">>)

\* ------------------------------------------------------------------- C21
\* the fields of the second file that differ from the first's
ChangedFields(a, b) == {k \in WrappedKeys : a[k] # b[k]}

\* the file a save of the session replaces and the file it writes, and two
\* saves in a row of the vault the session holds
ConsecutiveSaves ==
  LET first == save_vault(vault'[1], master'[1], rng')
      second == save_vault(vault'[1], master'[1], rng' + SaveDraws)
  IN {<<first.ok, second.ok>>}
     \cup (IF WrittenBySave(vaultFile) THEN {<<vaultFile, vaultFile'>>} ELSE {})

\* C21 as stated: between two consecutive saves every field but version
\* changes: kdf, kdf_salt, wrapped_key and vault all differ.
C21_AsStated ==
  [][SaveStep => \A s \in ConsecutiveSaves :
       ChangedFields(s[1], s[2]) = {"kdf", "kdf_salt", "wrapped_key", "vault"}]_vars

\* C21 (amended): between two consecutive saves kdf_salt, wrapped_key and
\* vault all differ, while version stays 2 and kdf stays the default
\* parameters.
C21_FieldsChangedBySave ==
  [][SaveStep => \A s \in ConsecutiveSaves :
       /\ ChangedFields(s[1], s[2]) = {"kdf_salt", "wrapped_key", "vault"}
       /\ s[2].kdf = KdfDefault /\ s[2].version = VAULT_FORMAT_VERSION]_vars

\* the master passphrase was changed, the save replacing a file a save wrote
C21_Witness ==
  /\ last.op = "master" /\ last.err = "" /\ pc[1] = "open"
  /\ WrittenBySave(vaultFile) /\ rng >= 2 * SaveDraws
  /\ vaultFile.kdf = KdfDefault

\* ------------------------------------------------------------------- C22

\* a file an earlier save wrote
EarlierFile == save_vault(Vault0(0), Pw0, -8 - SaveDraws).ok

\* values put in place of a nonce of a file f: text that is not base64, a
\* nonce no save drew, the nonce of the other record and of an earlier file
OtherNonces(f) ==
  { [garbage |-> TRUE], B64Encode(-1), f.wrapped_key.nonce, f.vault.nonce,
    EarlierFile.vault.nonce }

\* values put in place of the ciphertext of a file f: text that is not
\* base64, bytes that are no ciphertext, the two ciphertexts of an earlier
\* file and of f itself, and the plaintext pt sealed again with another key
\* or another nonce
OtherData(f, key, nonce, pt) ==
  { [garbage |-> TRUE], B64Encode([raw |-> -1]),
    EarlierFile.wrapped_key.data, EarlierFile.vault.data,
    f.wrapped_key.data, f.vault.data,
    B64Encode(Seal(RawKey(-1), nonce, pt)),
    B64Encode(Seal(key, nonce + 1, pt)) }

\* the files that differ from f in the nonce or the ciphertext of one record
Altered(f) ==
  LET wk == f.wrapped_key.data.b64
      vt == f.vault.data.b64
  IN ({[f EXCEPT !.wrapped_key.nonce = x] : x \in OtherNonces(f)}
      \cup {[f EXCEPT !.vault.nonce = x] : x \in OtherNonces(f)}
      \cup {[f EXCEPT !.wrapped_key.data = x] : x \in OtherData(f, wk.k, wk.n, wk.pt)}
      \cup {[f EXCEPT !.vault.data = x] : x \in OtherData(f, vt.k, vt.n, vt.pt)})
     \ {f}

\* the altered files among those a run can find in the vault directory
AlteredAtStart == Altered(WrappedFile(1)) \cap InitFiles

\* C22: a file a save wrote under a passphrase, with the nonce or the
\* ciphertext of its wrapped_key record or of its vault record changed to
\* another value, does not load with that passphrase: load returns an error
\* and no vault; an unlock attempt on such a file with the right passphrase
\* fails and leaves the session without a vault.
C22_TamperedFileFailsToLoad ==
  /\ Saved => \A g \in Altered(vaultFile) : ~IsOk(load_vault(g, last.pw, rng))
  /\ (last.op = "unlock" /\ last.p = 1 /\ last.pw = Pw0 /\ vaultFile \in AlteredAtStart)
       => last.err # "" /\ pc[1] # "open" /\ vault[1] = VaultDefault

\* an unlock attempt with the right passphrase on a saved file whose vault
\* nonce was changed has failed
C22_Witness ==
  /\ last.op = "unlock" /\ last.pw = Pw0 /\ last.err = ErrDecrypt
  /\ vaultFile = [WrappedFile(1) EXCEPT !.vault.nonce = B64Encode(-1)]
  /\ IsOk(load_vault(WrappedFile(1), Pw0, 0))

\* ------------------------------------------------------------------- C23
\* the passphrase that opens a file of the vault directory
RightPass(f) == IF IsWrappedV2(f) THEN FilePass(f) ELSE Pw0
AllUp == [rk |-> TRUE, rr |-> TRUE, w1 |-> TRUE, w2 |-> TRUE]

\* the file unlocks with its passphrase: nothing in it was altered
Intact(f) ==
  /\ Exists(f) /\ (IsWrappedV2(f) => WrittenBySave(f))
  /\ IsOk(attempt_unlock(f, metaFile, legacyKey, None, RightPass(f), rng, AllUp).res)

\* the file with a nonce or a ciphertext replaced by other bytes, the
\* encoding kept valid
AlteredBytes(f) ==
  IF IsWrappedV2(f)
  THEN { [f EXCEPT !.wrapped_key.nonce = B64Encode(-1)],
         [f EXCEPT !.wrapped_key.data = B64Encode([raw |-> -1])],
         [f EXCEPT !.vault.nonce = B64Encode(-1)],
         [f EXCEPT !.vault.data = B64Encode([raw |-> -1])] }
  ELSE { [f EXCEPT !.nonce = B64Encode(-1)],
         [f EXCEPT !.data = B64Encode([raw |-> -1])] }

\* C23: an unlock attempt that fails because the passphrase is wrong
\* reports the same error as the attempt with the right passphrase on the
\* same vault directory with the stored data altered, for each shape of the
\* vault file (wrapped v2, legacy with meta.json, oldest legacy).
C23_SameErrorWrongOrTampered ==
  [][(/\ Attempted(1) /\ last'.err # ""
      /\ Intact(vaultFile) /\ last'.pw # RightPass(vaultFile))
     => \A g \in AlteredBytes(vaultFile) :
          LET r == attempt_unlock(g, metaFile, legacyKey, trustedRev,
                                  RightPass(vaultFile), rng, AllUp).res
          IN ~IsOk(r) /\ r.err = last'.err]_vars

\* ------------------------------------------------------------------- C24
\* no text of the vault is left: every string of every entry and note is
\* overwritten
Wiped(v) ==
  /\ \A i \in 1..Len(v.entries) :
       /\ v.entries[i].name = Zeroized /\ v.entries[i].email = Zeroized
       /\ v.entries[i].password = Zeroized
       /\ v.entries[i].username \in {None, Some(Zeroized)}
       /\ v.entries[i].notes \in {None, Some(Zeroized)}
  /\ \A i \in 1..Len(v.notes) :
       v.notes[i].title = Zeroized /\ v.notes[i].content = Zeroized

\* C24: when a process has left its session, whichever way the session
\* ended, the memory that held the master passphrase and the memory that
\* held the decrypted vault are overwritten with zeros: every field of
\* every entry and of every note.
C24_WipedOnEveryExit ==
  pc[1] = "done" => master[1] = Zeroized /\ Wiped(vault[1])

\* ------------------------------------------------------------------- C25
\* the step writes the vault file
VaultFileWritten == vaultFile' # vaultFile \/ Has(last'.log, "write vault.json")

\* C25: every step that writes the vault file (first-run initialisation, a
\* save after a mutation, a change of the master passphrase, the migration
\* of a legacy file) leaves a wrapped-v2 file: exactly the five keys,
\* version 2, kdf {m_cost 19456, t_cost 2, p_cost 1}, the wrapped key sealed
\* under the key derived with those parameters and the vault sealed under
\* the random data key, never under a key derived from the passphrase.
C25_EveryWriteIsWrappedV2 ==
  [][VaultFileWritten =>
       /\ DOMAIN vaultFile' = WrappedKeys
       /\ vaultFile'.version = 2
       /\ vaultFile'.kdf = [m_cost |-> 19456, t_cost |-> 2, p_cost |-> 1]
       /\ vaultFile'.wrapped_key.data.b64.k =
            derive_key_with_params(last'.pw, vaultFile'.kdf_salt.b64, vaultFile'.kdf).ok
       /\ DOMAIN vaultFile'.vault.data.b64.k = {"raw"}
       /\ IsOk(load_vault(vaultFile', last'.pw, 0))]_vars

\* each of the four ways of writing has written: here the migration of a
\* password-keyed legacy file
C25_Witness ==
  /\ last.op = "unlock" /\ last.err = ""
  /\ Has(last.log, "load_vault_legacy") /\ Has(last.log, "write vault.json")
  /\ DOMAIN vaultFile = WrappedKeys /\ vaultFile.version = 2

\* ------------------------------------------------------------------- C26
\* the JSON objects made of a file's other keys and all of the five keys,
\* all but one of them, or none
WithKeySubsets(f) ==
  { [k \in (DOMAIN f \ WrappedKeys) \cup ks |-> IF k \in DOMAIN f THEN f[k] ELSE 0] :
      ks \in {WrappedKeys, {}} \cup {WrappedKeys \ {k} : k \in WrappedKeys} }

\* C26: is_wrapped_vault_file answers true exactly for the files whose JSON
\* object has all five keys version, kdf, kdf_salt, wrapped_key and vault;
\* an unlock attempt goes through load_vault exactly on those files and
\* through no legacy call then; and on a file with the five keys and a
\* version other than 2 the attempt fails with the format error, the file
\* and the session left as they were.
C26_WrappedIffFiveKeys ==
  [][(Attempted(1) /\ Exists(vaultFile)) =>
          /\ \A g \in WithKeySubsets(vaultFile) \cup {vaultFile} :
               is_wrapped_vault_file(g) = Ok(WrappedKeys \subseteq DOMAIN g)
          /\ Has(last'.log, "load_vault") <=> WrappedKeys \subseteq DOMAIN vaultFile
          /\ Has(last'.log, "load_vault") =>
               \A e \in LegacyEvents \cup {"write vault.json"} : ~Has(last'.log, e)
          /\ (WrappedKeys \subseteq DOMAIN vaultFile /\ vaultFile.version # 2) =>
               /\ last'.err = ErrVersion /\ pc'[1] # "open"
               /\ vaultFile' = vaultFile /\ vault'[1] = vault[1]]_vars

\* an attempt with the right passphrase on a five-key file of version 3 has
\* failed with the format error
C26_Witness ==
  /\ last.op = "unlock" /\ last.pw = Pw0 /\ last.err = ErrVersion
  /\ WrappedKeys \subseteq DOMAIN vaultFile /\ vaultFile.version = 3

\* ------------------------------------------------------------------- C27
\* the vault a reader of vault.json gets with the passphrase pw
VaultOnDisk(t, pw) ==
  LET d == ReadFile(t, RacePath)
  IN IF IsSome(d) THEN load_vault(FromBytes(d.some), pw, 0) ELSE Err(ErrNotFound)

\* C27: while two sessions that unlocked the same vault file save, in every
\* interleaving of the steps of their saves, vault.json changes only at a
\* rename, and from each rename on it holds the whole vault of the session
\* that made it (its entries, its notes, its revision), so that the file
\* finally holds the vault of the session whose rename came last; at no
\* moment does it hold pieces of both sessions' files.
C27_LastRenameWins ==
  [][/\ ReadFile(fs', RacePath) # ReadFile(fs, RacePath) =>
          /\ last'.op = "rename" /\ last'.err = ""
          /\ ReadFile(fs', RacePath) = Some(wsrc[last'.p].some.bytes)
     /\ (last'.op = "rename" /\ last'.err = "") =>
          /\ IsOk(VaultOnDisk(fs', master[last'.p]))
          /\ VaultOnDisk(fs', master[last'.p]).ok = vault[last'.p]
     /\ IsOk(VaultOnDisk(fs', Pw0))
     /\ \E p \in Procs :
          VaultOnDisk(fs', Pw0).ok \in {Vault0(1), vault'[p],
                                        [vault'[p] EXCEPT !.notes = SubSeq(@, 1, Len(@) - 1),
                                                          !.revision = @ - 1]}]_vars

\* both sessions have saved, the second rename coming while the first
\* session's save was still under way, and the file holds the second's vault
C27_Witness ==
  /\ rpc = "race" /\ last.op = "rename" /\ last.p = 2 /\ last.err = ""
  /\ pc[1] = "w-written" /\ vault[1].revision = 2 /\ vault[2].revision = 2
  /\ VaultOnDisk(fs, Pw0).ok = vault[2] /\ vault[2] # vault[1]

\* ------------------------------------------------------------------- C28

\* C28: generate_strong_password(len) returns exactly max(len, 12)
\* characters, among them an uppercase letter, a lowercase letter, a digit
\* and a punctuation character, whatever the random source gives.
C28_GeneratedPassword ==
  rpc = "g-done" =>
    /\ Len(wsrc.out) = (IF wsrc.len >= 12 THEN wsrc.len ELSE 12)
    /\ HasOneOf(wsrc.out, AsciiUpper) /\ HasOneOf(wsrc.out, AsciiLower)
    /\ HasOneOf(wsrc.out, AsciiDigit) /\ HasOneOf(wsrc.out, AsciiPunctuation)

\* asked for no length, the loop picking uppercase letters only and the
\* shuffle moving the four first picks: twelve characters, nine of them "A"
C28_Witness ==
  /\ rpc = "g-done" /\ wsrc.len = 0 /\ Len(wsrc.out) = 12
  /\ Cardinality({i \in 1..12 : wsrc.out[i] = "A"}) = 9
  /\ wsrc.out[1] \notin AsciiUpper

\* ------------------------------------------------------------------- C29
RequiredFieldsFilled(v) ==
  \A i \in 1..Len(v.entries) :
    ~is_empty(v.entries[i].name) /\ ~is_empty(v.entries[i].email)
      /\ ~is_empty(v.entries[i].password)
\* the vault the saved file holds, read with the session's passphrase
SavedVault == load_vault(vaultFile, master[1], rng).ok

\* C29: from a vault whose entries all have a name, an email and a password,
\* adding, changing a credential's password, deleting and changing the master
\* passphrase keep every entry so, in memory and in the saved file; the add
\* form refuses a name or an email that is empty once trimmed and an empty
\* password, and the change form refuses an empty password, both leaving the
\* vault and the file as they were.
C29_RequiredFieldsKept ==
  /\ [](RequiredFieldsFilled(vault[1]) /\ RequiredFieldsFilled(SavedVault))
  /\ [](last.op = "add"
          => /\ trim(last.form.name) # <<>> /\ trim(last.form.email) # <<>>
             /\ last.form.password # <<>>)
  /\ [][ /\ last'.op = "password"
              => \E i \in 1..Len(vault[1].entries) :
                   /\ vault'[1].entries[i].password # <<>>
                   /\ vault'[1].entries[i].password # vault[1].entries[i].password
         /\ last'.op \in {"add refused", "password refused"}
              => (vault' = vault /\ vaultFile' = vaultFile) ]_vars

\* an entry added to the one there, one password changed to blanks, and then
\* an add refused
C29_Witness ==
  /\ last.op = "add refused"
  /\ Len(vault[1].entries) = 2
  /\ \E i \in 1..2 : vault[1].entries[i].password = <<" ">>
  /\ vault[1].revision = 3

\* ------------------------------------------------------------------- C30
\* C30: when a step of writing vault.json fails during a save, the save
\* returns an error, vault.json holds the bytes it held before, and the
\* trusted revision is left as it was; the store is written only by a save
\* whose rename over vault.json has succeeded.
C30_FailedWriteLeavesFileAndStore ==
  [][ /\ last'.op = "failed"
          => /\ last'.err # "" /\ pc'[last'.p] = "open"
             /\ ReadFile(fs', RacePath) = ReadFile(fs, RacePath)
             /\ trustedRev' = trustedRev
      /\ trustedRev' # trustedRev
          => /\ last'.op = "saved" /\ last'.err = ""
             /\ pc[last'.p] = "w-written" ]_vars

\* the first session's write has failed after the second session saved: the
\* file holds the second's vault, the store its revision, no temporary file
\* is left, and the first session's vault, its revision raised in memory, is
\* on no disk
C30_Witness ==
  /\ rpc = "race" /\ last.op = "failed" /\ last.p = 1 /\ last.err = ErrIo
  /\ vault[1].revision = 2 /\ vault[1] # vault[2] /\ trustedRev = Some(2)
  /\ VaultOnDisk(fs, Pw0).ok = vault[2]
  /\ \A q \in DOMAIN fs : fs[q].kind = "file" => q = RacePath

\* ------------------------------------------------------------------- C31
\* an attempt with a passphrase the file opens with, in which the read of the
\* trusted revision failed with a store error
StoreReadFailed ==
  /\ Attempted(1)
  /\ Exists(vaultFile)
  /\ IsOk(attempt_unlock(vaultFile, metaFile, legacyKey, None, last'.pw, rng, AllUp).res)
  /\ Has(last'.log, "load_trusted_revision failed")
StoreWriteTried(log) ==
  Has(log, StoreEvent(TRUE)) \/ Has(log, StoreEvent(FALSE))

\* C31 as stated: when the read of the Trusted Revision fails with a store
\* error, an unlock with the correct passphrase succeeds without a rollback
\* comparison and without writing the Trusted Revision, whatever revision
\* the file holds.
C31_AsStated ==
  [][StoreReadFailed
     => /\ last'.err = "" /\ pc'[1] = "open"
        /\ ~StoreWriteTried(last'.log)
        /\ trustedRev' = trustedRev]_vars

\* C31: when the read of the Trusted Revision fails with a store error, an
\* unlock with the correct passphrase succeeds without a rollback
\* comparison, whatever revision the file holds; for a wrapped-v2 file
\* nothing is written, to the store or to the file; for a legacy file the
\* save of the migration, made before the read, has tried one write of the
\* new revision to the store.
C31_StoreReadErrorIsSoft ==
  [][StoreReadFailed
     => /\ last'.err = "" /\ pc'[1] = "open"
        /\ IF IsWrappedV2(vaultFile)
           THEN /\ last'.log = <<"read vault.json", "load_vault",
                                 "load_trusted_revision failed">>
                /\ trustedRev' = trustedRev /\ vaultFile' = vaultFile
                /\ vault'[1].revision = EmbeddedRevision(vaultFile)
           ELSE /\ Has(last'.log, "write vault.json")
                /\ Cardinality({i \in 1..Len(last'.log) :
                                  last'.log[i] \in {StoreEvent(TRUE), StoreEvent(FALSE)}}) = 1
                /\ trustedRev' \in {trustedRev, Some(vault'[1].revision)}]_vars

\* a wrapped file two revisions behind the store, opened while the store
\* does not answer the read
C31_Witness ==
  /\ last.op = "unlock" /\ last.err = "" /\ pc[1] = "open"
  /\ last.log = <<"read vault.json", "load_vault", "load_trusted_revision failed">>
  /\ IsSome(trustedRev) /\ vault[1].revision < trustedRev.some

\* ------------------------------------------------------------------- C32
\* the last call was an unlock or a save of session 1 that returned without
\* error and in which the store answered every call made to it
CompletedWithStore ==
  /\ pc[1] = "open" /\ last.p = 1 /\ last.err = ""
  /\ last.op \in {"init", "unlock", "add", "master"}
  /\ ~Has(last.log, "load_trusted_revision failed")
  /\ ~Has(last.log, StoreEvent(FALSE))

\* C32: in one session whose store answers, after each unlock and each save
\* that completed without error the Trusted Revision is the revision of the
\* vault in memory and the revision sealed in vault.json.
C32_RevisionsAgree ==
  CompletedWithStore
    => /\ trustedRev = Some(vault[1].revision)
       /\ IsWrappedV2(vaultFile)
       /\ EmbeddedRevision(vaultFile) = vault[1].revision

\* a legacy file migrated at the unlock and the vault then saved once more
C32_Witness ==
  /\ CompletedWithStore /\ last.op = "add"
  /\ Has(last.log, "write vault.json")
  /\ trustedRev = Some(2) /\ vault[1].revision = 2
  /\ metaFile # NoFile

\* ------------------------------------------------------------------- C33
\* C33: the count of failed attempts is a local of the running unlock
\* screen: a session that leaves the screen, by Esc or by a successful unlock,
\* after fewer than 3 failures leaves lock.json as it was; lock.json is
\* written at the screen only by the failure that is the session's third;
\* and a process that comes to the screen starts with a count of zero.
C33_CountLivesInSession ==
  [][ /\ (pc[1] = "unlock" /\ pc'[1] # "unlock" /\ attempts'[1] < 3)
           => (lockFile' = lockFile /\ last'.op \in {"cancel", "unlock"})
      /\ (pc[1] = "unlock" /\ lockFile' # lockFile)
           => (attempts[1] = 2 /\ attempts'[1] = 3 /\ last'.err # "")
      /\ (pc[1] # "unlock" /\ pc'[1] = "unlock") => attempts'[1] = 0 ]_vars

\* two failures, then Esc: the process is gone and there is no lock.json
C33_Witness ==
  /\ pc[1] = "done" /\ last.op = "cancel" /\ attempts[1] = 2 /\ lockFile = NoFile

\* ------------------------------------------------------------------- C34
\* the passphrase policy: eight characters at least, an uppercase letter, a
\* digit, and a character that is neither letter, digit nor blank
PassesPolicy(pw) ==
  /\ Len(pw) >= 8
  /\ \E i \in 1..Len(pw) : pw[i] \in AsciiUpper
  /\ \E i \in 1..Len(pw) : pw[i] \in AsciiDigit
  /\ \E i \in 1..Len(pw) : pw[i] \in AsciiPunctuation

\* C34: confirming the change-master form with two passphrases that differ,
\* with one that fails the policy, or with the current one changes nothing
\* and saves nothing; in every other case the vault is saved once under the
\* new passphrase: the file then opens with the new passphrase and not with
\* the old one, and holds the entries and notes as they were.
C34_ChangeMaster ==
  [][ /\ (last'.op = "master refused")
           => /\ vault' = vault /\ master' = master /\ vaultFile' = vaultFile
              /\ trustedRev' = trustedRev /\ rng' = rng
      /\ (last'.op = "master")
           => /\ last'.form.new1 = last'.form.new2
              /\ PassesPolicy(last'.form.new1)
              /\ last'.form.new1 # master[1]
              /\ master'[1] = last'.form.new1
              /\ last'.log[1] = "write vault.json"
              /\ Cardinality({i \in 1..Len(last'.log) : last'.log[i] = "write vault.json"}) = 1
              /\ vault'[1] = [vault[1] EXCEPT !.revision = saturating_add(@)]
              /\ IsOk(load_vault(vaultFile', master'[1], rng'))
              /\ load_vault(vaultFile', master'[1], rng').ok = vault'[1]
              /\ ~IsOk(load_vault(vaultFile', master[1], rng')) ]_vars

\* the passphrase changed and changed back, then a form refused
C34_Witness ==
  /\ last.op = "master refused" /\ master[1] = FormPw0
  /\ vault[1].revision = 3 /\ Len(vault[1].entries) = 1
  /\ IsOk(load_vault(vaultFile, FormPw0, rng))

\* ---------------------------------------------------------------- C35
SavingOps ==
  {"add", "delete", "delete service", "password", "master", "note add", "note edit",
   "note delete", "import"}
CancelOps == {"cancelled", "editor cancelled", "declined"}
VaultWrites(log) == Len(SelectSeq(log, LAMBDA e : e = "write vault.json"))

\* C35 as stated: every confirmed mutating action of a session saves once
\* and the revision after it is the revision before it plus one; a cancelled
\* action saves nothing and leaves the vault and the vault file as they were.
C35_AsStated ==
  [][/\ (last'.op \in SavingOps /\ last'.err = "")
         => /\ VaultWrites(last'.log) = 1
            /\ vault'[1].revision = vault[1].revision + 1
     /\ (last'.op \in CancelOps)
         => (vault' = vault /\ vaultFile' = vaultFile /\ last'.log = <<>>)]_vars

\* C35: every confirmed mutating action of a session (add, delete, delete
\* service, change of a credential's password, change of the master
\* passphrase, add, edit or delete of a note, import of a text file) writes
\* the vault file once, the file opens to the vault in memory, and the
\* revision after it is the revision before it plus one, or the same
\* revision at the top of the range of the counter; a cancelled action (Esc or
\* n, a declined overwrite, a failed editor) writes nothing and leaves the
\* vault, the vault file and the stored revision as they were.
C35_OneSavePerAction ==
  [][/\ (last'.op \in SavingOps /\ last'.err = "")
         => /\ VaultWrites(last'.log) = 1
            /\ vault'[1].revision = saturating_add(vault[1].revision)
            /\ load_vault(vaultFile', master'[1], rng').ok = vault'[1]
     /\ (last'.op \in CancelOps)
         => /\ vault' = vault /\ vaultFile' = vaultFile /\ trustedRev' = trustedRev
            /\ last'.log = <<>>]_vars

\* a note was edited and saved, and the revision is at the top of the range
C35_Witness ==
  /\ last.op = "note edit" /\ last.err = ""
  /\ vault[1].revision = U64_MAX
  /\ trustedRev = Some(U64_MAX)

\* ---------------------------------------------------------------- C36
\* the name of the service shown as selected at service_idx
ShownService(v, service_idx) ==
  LET services == unique_services(v)
  IN services[IF service_idx < Len(services) THEN service_idx + 1 ELSE Len(services)]
\* how many entries of the same service come before entry i of the vault
PlaceInService(v, i) ==
  Cardinality({j \in 1..(i - 1) : v.entries[j].name = v.entries[i].name})
\* entry i of the vault is the one shown as selected at (service_idx, entry_idx)
ShownEntry(v, i, service_idx, entry_idx) ==
  LET n == Cardinality({j \in 1..Len(v.entries) : v.entries[j].name = v.entries[i].name})
  IN /\ v.entries[i].name = ShownService(v, service_idx)
     /\ PlaceInService(v, i) = IF entry_idx < n THEN entry_idx ELSE n - 1

\* C36: a change of a credential's password changes the password of the
\* selected entry and nothing else of the vault but its revision: the id,
\* name, email, username and notes of that entry, every other entry and
\* every note stay as they were; an edit of a note keeps the note's id and
\* title, every other note and every entry.
C36_OnlyTheTargetedField ==
  [][/\ (last'.op = "password" /\ last'.err = "")
         => \E i \in 1..Len(vault[1].entries) :
              /\ ShownEntry(vault[1], i, last'.form.service_idx, last'.form.entry_idx)
              /\ vault'[1].entries[i].password # vault[1].entries[i].password
              /\ vault'[1].entries =
                   [vault[1].entries EXCEPT ![i].password = vault'[1].entries[i].password]
              /\ vault'[1].notes = vault[1].notes
              /\ load_vault(vaultFile', master'[1], rng').ok = vault'[1]
     /\ (last'.op = "note edit" /\ last'.err = "")
         => LET k == last'.form.note_idx
            IN /\ vault'[1].notes[k].id = vault[1].notes[k].id
               /\ vault'[1].notes[k].title = vault[1].notes[k].title
               /\ vault'[1].notes = [vault[1].notes EXCEPT ![k].content = vault'[1].notes[k].content]
               /\ vault'[1].entries = vault[1].entries
               /\ load_vault(vaultFile', master'[1], rng').ok = vault'[1]]_vars

\* the password of the one entry of the second service was changed, the
\* entry of the first service kept its own
C36_Witness ==
  /\ last.op = "password" /\ last.err = ""
  /\ last.form.service_idx = 1
  /\ Len(vault[1].entries) = 2
  /\ vault[1].entries[1].password = <<"p">>
  /\ vault[1].entries[2].password = <<" ">>
  /\ vault[1].entries[2].username = Some(<<"u">>)

\* ---------------------------------------------------------------- C37
\* the places of the vault whose entry is of the service
OfService(v, service) == {j \in 1..Len(v.entries) : v.entries[j].name = service}

\* C37: a confirmed deletion of a credential removes the entry that was shown
\* as selected (the entry at entry_idx among the entries of the selected
\* service, in the order of the vault) and keeps every other entry in its
\* order; a confirmed deletion of a service removes the entries whose name
\* is the selected service and keeps every other entry in its order; the
\* notes are kept and the file opens to the vault that is left.
C37_DeletesWhatWasSelected ==
  [][/\ (last'.op = "delete" /\ last'.err = "")
         => \E i \in 1..Len(vault[1].entries) :
              /\ ShownEntry(vault[1], i, last'.form.service_idx, last'.form.entry_idx)
              /\ vault'[1].entries =
                   SubSeq(vault[1].entries, 1, i - 1)
                     \o SubSeq(vault[1].entries, i + 1, Len(vault[1].entries))
              /\ vault'[1].notes = vault[1].notes
              /\ load_vault(vaultFile', master'[1], rng').ok = vault'[1]
     /\ (last'.op = "delete service" /\ last'.err = "" /\ vault[1].entries # <<>>)
         => LET service == ShownService(vault[1], last'.form.service_idx)
                kept == {j \in 1..Len(vault[1].entries) : j \notin OfService(vault[1], service)}
            IN /\ OfService(vault[1], service) # {}
               /\ OfService(vault'[1], service) = {}
               /\ Len(vault'[1].entries) = Cardinality(kept)
               /\ \A j \in kept :
                    vault'[1].entries[Cardinality({k \in kept : k <= j})] = vault[1].entries[j]
               /\ vault'[1].notes = vault[1].notes
               /\ load_vault(vaultFile', master'[1], rng').ok = vault'[1]]_vars

\* of three entries the second entry of the first service, the third of the
\* vault, was deleted, and then the second service
C37_Witness ==
  /\ last.op = "delete service" /\ last.err = ""
  /\ last.form.service_idx = 1
  /\ vault[1].entries = <<FormEntry0>>
  /\ vault[1].notes = <<FormNote0>>
  /\ vault[1].revision = 3

\* ---------------------------------------------------------------- C38
\* C38: no step of the program deletes or rewrites meta.json: through a
\* migration of a legacy vault file to wrapped v2, and through every later
\* unlock, save, lockout and restart, meta.json holds what it held.
C38_MetaKept == [][metaFile' = metaFile]_vars

\* a legacy vault file with meta.json has just been migrated by an unlock,
\* and meta.json is there with its hash of the passphrase
C38_Witness ==
  /\ last.op = "unlock" /\ last.err = "" /\ last.p = 1 /\ pc[1] = "open"
  /\ Has(last.log, "read meta.json") /\ Has(last.log, "write vault.json")
  /\ IsWrappedV2(vaultFile)
  /\ load_meta(metaFile) = Ok(Some(metaFile))
  /\ metaFile.master_hash = PasswordHash(master[1])

\* ---------------------------------------------------------------- C39
\* the text of the last copy is within its lifetime
WithinLifetime ==
  IsSome(wsrc.copied) /\ now < wsrc.copied.some.at + CLIPBOARD_LIFETIME_SECS

\* a copied secret is on the clipboard through its own lifetime: no thread
\* started by an earlier copy clears it
C39_NotClearedEarly ==
  (pc[1] # "done" /\ WithinLifetime) => wsrc.clipboard = wsrc.copied.some.text

\* when the session has ended no copied secret is left on the clipboard
C39_ClearedAtExit ==
  (pc[1] = "done" /\ IsSome(wsrc.copied)) => wsrc.clipboard # wsrc.copied.some.text

\* C39: every secret copied to the clipboard stays there through its own
\* lifetime of CLIPBOARD_LIFETIME_SECS, the thread of an earlier copy does
\* not clear the text of a later copy before that time, and the secret is
\* cleared when the session ends before its thread has woken.
C39_ClipboardLifetime == C39_NotClearedEarly /\ C39_ClearedAtExit

\* ---------------------------------------------------------------- C40
\* C40: a session that has seen no key event for more than IDLE_TIMEOUT_SECS
\* has left its loop and gone through the teardown that zeroes the secrets.
C40_IdleSessionEnds ==
  Elapsed > IDLE_TIMEOUT_SECS
    => /\ pc[1] = "done"
       /\ master[1] = Zeroized
       /\ \A i \in 1..Len(vault[1].entries) : vault[1].entries[i].password = Zeroized
       /\ \A k \in 1..Len(vault[1].notes) : vault[1].notes[k].content = Zeroized

\* the same of the passwords session, which starts no editor
C40_PasswordsSessionEnds ==
  (Elapsed > IDLE_TIMEOUT_SECS /\ rpc = "passwords")
    => /\ pc[1] = "done"
       /\ master[1] = Zeroized
       /\ \A i \in 1..Len(vault[1].entries) : vault[1].entries[i].password = Zeroized
       /\ \A k \in 1..Len(vault[1].notes) : vault[1].notes[k].content = Zeroized

\* every key event restarts the idle period: after it the loop has seen a
\* key this second, whatever overlay it was on
C40_KeyRestartsIdle ==
  [][(/\ pc[1] = "open" /\ now' = now
      /\ last'.op \in {"key", "copy", "editor", "quit"}
      /\ wsrc.sleepers \subseteq wsrc'.sleepers \/ pc'[1] = "done") => Elapsed' = 0]_vars

====
